---- MODULE Spec2Model ----
(***************************************************************************)
(* Verification model of the rten execution engine:                        *)
(*   - GEMM operand packing        (src/src/gemm/packing.rs)               *)
(*   - broadcast shape arithmetic  (src/src/ops/binary_elementwise.rs)     *)
(*   - binary / unary elementwise operators and their in-place variants    *)
(* Each subsystem has its own specification (SpecPack, SpecShapes,         *)
(* SpecOps); the variables of the other subsystems stay idle.              *)
(***************************************************************************)
EXTENDS Integers, Sequences, FiniteSets, TLC

VARIABLES
    \* ---- packing (pack_a_block / pack_b_block) ----
    args,       \* the arguments of the running pack_*_block call
    out,        \* the `out: &mut [MaybeUninit<f32>]` buffer
    panel,      \* loop variable of `for panel in 0..n_panels`
    pc,         \* position of the call
    oob,        \* ghost: an unchecked access left its slice, or padding was read
    \* ---- broadcast shape arithmetic ----
    shapes,     \* the two shapes under test: [a |-> .., b |-> ..]
    bs_ab,      \* result of broadcast_shapes(a, b)
    bs_ba,      \* result of broadcast_shapes(b, a)
    fast,       \* result of fast_broadcast_cycles_repeats(a, b)
    \* ---- elementwise operators ----
    call,       \* the operator call under test: function, operands, attributes
    run_result, \* what the copying entry point returned
    inplace,    \* what the *_in_place function left in its first operand
    op_inplace, \* what Operator::run_in_place returned
    \* ---- Resize ----
    resize_call,   \* the arguments of resize and the inputs of Resize::run
    resize_result, \* what resize returned
    resize_run,    \* what Resize::run returned
    \* ---- Concat, Slice and Add of ops/mod.rs ----
    mod_call,      \* the call under test: function and arguments
    mod_result,    \* what the function returned
    mod_second,    \* what the second call on the same arguments returned
    \* ---- ModelBuilder ----
    nodes,         \* `nodes` of the builder
    ids,           \* ghost: the calls made so far, each with the id it returned
    model          \* what finish() wrote

packVars == <<args, out, panel, pc, oob>>
shapeVars == <<shapes, bs_ab, bs_ba, fast>>
opVars == <<call, run_result, inplace, op_inplace>>
resizeVars == <<resize_call, resize_result, resize_run>>
modVars == <<mod_call, mod_result, mod_second>>
builderVars == <<nodes, ids, model>>
nonPackVars == <<shapeVars, opVars, resizeVars, modVars, builderVars>>
nonShapeVars == <<packVars, opVars, resizeVars, modVars, builderVars>>
nonOpVars == <<packVars, shapeVars, resizeVars, modVars, builderVars>>
nonResizeVars == <<packVars, shapeVars, opVars, modVars, builderVars>>
nonModVars == <<packVars, shapeVars, opVars, resizeVars, builderVars>>
nonBuilderVars == <<packVars, shapeVars, opVars, resizeVars, modVars>>
vars == <<args, out, panel, pc, oob, shapes, bs_ab, bs_ba, fast,
          call, run_result, inplace, op_inplace,
          resize_call, resize_result, resize_run,
          mod_call, mod_result, mod_second, nodes, ids, model>>

(***************************************************************************)
(* Bounds                                                                  *)
(***************************************************************************)
MaxDim == 3      \* the packed matrices are MaxDim x MaxDim
MaxTile == 3     \* MR and NR range over 1..MaxTile
MaxOut == 13     \* out.len() ranges over 0..MaxOut
MaxRank == 3     \* shapes have 0..MaxRank dimensions
MaxSize == 2     \* each dimension size ranges over 0..MaxSize
TensorRank == 3  \* operand tensors have 0..TensorRank dimensions
TensorSize == 2  \* the non-unit, non-empty size of a dimension of an operand
MaxImage == 2    \* resized images have 0..MaxImage rows and columns
LargeScale == 41 \* the integer scale factors of Resize range over 1..LargeScale
ModRank == 2     \* tensors of ops/mod.rs have 0..ModRank dimensions
ModSize == 2     \* each of their dimension sizes ranges over 0..ModSize
MaxNodes == 4    \* a ModelBuilder receives up to MaxNodes nodes

(***************************************************************************)
(* Helpers                                                                 *)
(***************************************************************************)
Min(x, y) == IF x < y THEN x ELSE y
Max(x, y) == IF x > y THEN x ELSE y

\* usize arithmetic.  A usize value that wrapped below zero is kept as the
\* negative integer congruent to it modulo 2^64 (-1 stands for 2^64 - 1);
\* sums and products of such values stay congruent, and all magnitudes here
\* are far below 2^63, so the order of two usize values is decided by sign
\* first.
ULess(x, y) ==
    \/ x >= 0 /\ y < 0
    \/ (x >= 0) = (y >= 0) /\ x < y

\* MaybeUninit<f32>::uninit(): a cell nobody has written yet.
Uninit == -1
\* The value of a read through get_unchecked at an offset outside the slice.
Garbage == -2

\* round_up(x, n) of gemm/mod.rs: the smallest multiple of n that is >= x.
round_up(x, n) == ((x + n - 1) \div n) * n

\* Range<usize>::len(): saturating end - start.
RangeLen(r) == IF r.end > r.start THEN r.end - r.start ELSE 0

(***************************************************************************)
(* Matrix: a 2-D strided view over a storage slice.  Storage element at    *)
(* offset o holds the value o + 1, so a packed value names the offset it   *)
(* was read from and never collides with the padding value 0.              *)
(***************************************************************************)
Layouts == { <<MaxDim, 1>>, <<1, MaxDim>>, <<2 * MaxDim, 2>> }

StorageLen(m) == (m.rows - 1) * m.row_stride + (m.cols - 1) * m.col_stride + 1

Matrix(strides) ==
    [rows |-> MaxDim, cols |-> MaxDim,
     row_stride |-> strides[1], col_stride |-> strides[2]]

\* a_data.get_unchecked(offset)
GetUnchecked(m, offset) ==
    IF offset >= 0 /\ offset < StorageLen(m) THEN offset + 1 ELSE Garbage

\* a[[row, col]]
MatrixAt(m, row, col) == row * m.row_stride + col * m.col_stride + 1

Ranges == { r \in [start : 0..MaxDim, end : 0..MaxDim] : r.start <= r.end }

(***************************************************************************)
(* Writing a set of <<index, value>> pairs into a buffer.  Checked writes  *)
(* (`out[i].write(..)`) panic at the first index >= len; the loops write   *)
(* in increasing index order, so every smaller index has been written.     *)
(***************************************************************************)
WriteAll(buf, writes) ==
    [i \in 1..Len(buf) |->
        IF \E w \in writes : w[1] = i - 1
        THEN (CHOOSE w \in writes : w[1] = i - 1)[2]
        ELSE buf[i]]

AnyOutside(buf, writes) == \E w \in writes : w[1] < 0 \/ w[1] >= Len(buf)

(***************************************************************************)
(* pack_a_block<MR>(out, a, rows, cols)                                    *)
(***************************************************************************)
a_rows == RangeLen(args.rows)
a_cols == RangeLen(args.cols)

NPanelsA == round_up(a_rows, args.tile) \div args.tile

\* `a_rows - panel_start_row >= MR`
FullPanelA(p) == a_rows - p * args.tile >= args.tile

AOffset(p) ==
    (args.rows.start + p * args.tile) * args.m.row_stride
        + args.cols.start * args.m.col_stride

\* Source offset read for (col, row) of panel p by each of the three loops.
ASrcUnit(p, col, row) == AOffset(p) + row * args.m.row_stride + col
ASrcStrided(p, col, row) ==
    AOffset(p) + row * args.m.row_stride + col * args.m.col_stride
ASrcFallback(p, col, row) ==
    (args.rows.start + p * args.tile + row) * args.m.row_stride
        + (args.cols.start + col) * args.m.col_stride

\* Mutant: off-by-one in the fallback guard (`a_row <= rows.end`).
AFallbackReadsOffByOne(p, row) ==
    args.rows.start + p * args.tile + row <= args.rows.end

\* `if a_row < rows.end { read } else { 0.0 }` of the fallback loop
AFallbackReads(p, row) == args.rows.start + p * args.tile + row < args.rows.end

ASrc(p, col, row) ==
    IF FullPanelA(p)
    THEN IF args.m.col_stride = 1 THEN ASrcUnit(p, col, row)
                                  ELSE ASrcStrided(p, col, row)
    ELSE ASrcFallback(p, col, row)

AReads(p, row) == FullPanelA(p) \/ AFallbackReads(p, row)

\* (col, row) of panel p lies below the last row of the `rows` range.
AIsPadding(p, row) == args.rows.start + p * args.tile + row >= args.rows.end

\* Mutant: row-major order inside the panel.
ADstRowMajor(p, col, row) == p * a_cols * args.tile + row * a_cols + col

\* out index written for (col, row) of panel p: panel_offset + col * MR + row
ADst(p, col, row) == p * a_cols * args.tile + col * args.tile + row

APanelCells(p) == (0..(a_cols - 1)) \X (0..(args.tile - 1))

APanelWrites(p) ==
    { <<ADst(p, c[1], c[2]),
        IF AReads(p, c[2]) THEN GetUnchecked(args.m, ASrc(p, c[1], c[2])) ELSE 0>>
      : c \in APanelCells(p) }

APanelReadOffsets(p) ==
    { ASrc(p, c[1], c[2]) : c \in { d \in APanelCells(p) : AReads(p, d[2]) } }

\* The two assertions that guard the unchecked loops of a full panel.
\* (a_cols - 1) wraps when a_cols = 0.
AAssertOut(p) ==
    ULess(p * a_cols * args.tile + (a_cols - 1) * args.tile + args.tile - 1,
          Len(out))
AAssertData(p) ==
    ULess(AOffset(p) + (args.tile - 1) * args.m.row_stride
              + (a_cols - 1) * args.m.col_stride,
          StorageLen(args.m))

\* Arithmetic overflow in the assertions panics when overflow checks are on.
AOverflow(p) == args.overflow_checks /\ a_cols = 0

APanelPanics(p) ==
    IF FullPanelA(p)
    THEN AOverflow(p) \/ ~AAssertOut(p) \/ ~AAssertData(p)
    ELSE AnyOutside(out, APanelWrites(p))

PackAPanel ==
    /\ pc = "pack_a"
    /\ panel < NPanelsA
    /\ IF FullPanelA(panel) /\ APanelPanics(panel)
       THEN /\ pc' = "panicked"
            /\ UNCHANGED <<out, panel, oob>>
       ELSE /\ out' = WriteAll(out, APanelWrites(panel))
            /\ oob' = [read |-> oob.read
                           \/ \E o \in APanelReadOffsets(panel) :
                                 o < 0 \/ o >= StorageLen(args.m),
                       write |-> oob.write
                           \/ (FullPanelA(panel)
                               /\ AnyOutside(out, APanelWrites(panel))),
                       pad_read |-> oob.pad_read
                           \/ \E c \in APanelCells(panel) :
                                 AReads(panel, c[2]) /\ AIsPadding(panel, c[2])]
            /\ IF APanelPanics(panel)
               THEN pc' = "panicked" /\ panel' = panel
               ELSE pc' = pc /\ panel' = panel + 1
    /\ UNCHANGED <<args, nonPackVars>>

\* `for x in &mut out[n_init..] { x.write(0.) }`
ASpareStart == NPanelsA * a_cols * args.tile

\* Mutant: the spare capacity is left as it is.
ZeroSpareSkipped(buf, n_init) == buf

ZeroSpare(buf, n_init) ==
    [i \in 1..Len(buf) |-> IF i - 1 >= n_init THEN 0 ELSE buf[i]]

PackASpare ==
    /\ pc = "pack_a"
    /\ panel = NPanelsA
    /\ IF ASpareStart > Len(out)
       THEN pc' = "panicked" /\ out' = out
       ELSE pc' = "returned" /\ out' = ZeroSpare(out, ASpareStart)
    /\ UNCHANGED <<args, panel, oob, nonPackVars>>

(***************************************************************************)
(* pack_b_block<NR>(out, b, rows, cols)                                    *)
(***************************************************************************)
b_rows == RangeLen(args.rows)
b_cols == RangeLen(args.cols)

NPanelsB == round_up(b_cols, args.tile) \div args.tile

\* `b_cols - panel_start_col >= NR`
FullPanelB(p) == b_cols - p * args.tile >= args.tile

BOffset(p) ==
    args.rows.start * args.m.row_stride
        + (args.cols.start + p * args.tile) * args.m.col_stride

\* Source offset read for (row, col) of panel p by each of the three loops.
BSrcUnit(p, row, col) == BOffset(p) + row * args.m.row_stride + col
\* Mutant: the strided loop forgets the column stride.
BSrcStridedNoStride(p, row, col) == BOffset(p) + row * args.m.row_stride + col

BSrcStrided(p, row, col) ==
    BOffset(p) + row * args.m.row_stride + col * args.m.col_stride
BSrcFallback(p, row, col) ==
    (args.rows.start + row) * args.m.row_stride
        + (args.cols.start + p * args.tile + col) * args.m.col_stride

\* `if out_col < b_cols { read } else { 0.0 }` of the fallback loop
BFallbackReads(p, col) == p * args.tile + col < b_cols

BSrc(p, row, col) ==
    IF FullPanelB(p)
    THEN IF args.m.col_stride = 1 THEN BSrcUnit(p, row, col)
                                  ELSE BSrcStrided(p, row, col)
    ELSE BSrcFallback(p, row, col)

BReads(p, col) == FullPanelB(p) \/ BFallbackReads(p, col)

\* (row, col) of panel p lies right of the last column of the `cols` range.
BIsPadding(p, col) == args.cols.start + p * args.tile + col >= args.cols.end

\* out index written for (row, col) of panel p: panel_offset + row * NR + col
BDst(p, row, col) == p * b_rows * args.tile + row * args.tile + col

BPanelCells(p) == (0..(b_rows - 1)) \X (0..(args.tile - 1))

BPanelWrites(p) ==
    { <<BDst(p, c[1], c[2]),
        IF BReads(p, c[2]) THEN GetUnchecked(args.m, BSrc(p, c[1], c[2])) ELSE 0>>
      : c \in BPanelCells(p) }

BPanelReadOffsets(p) ==
    { BSrc(p, c[1], c[2]) : c \in { d \in BPanelCells(p) : BReads(p, d[2]) } }

\* The two assertions that guard the unchecked loops of a full panel.
\* (b_rows - 1) wraps when b_rows = 0.
BAssertOut(p) ==
    ~ULess(Len(out),
           p * b_rows * args.tile + (b_rows - 1) * args.tile + args.tile)
BAssertData(p) ==
    ULess(BOffset(p) + (b_rows - 1) * args.m.row_stride
              + (args.tile - 1) * args.m.col_stride,
          StorageLen(args.m))

BOverflow(p) == args.overflow_checks /\ b_rows = 0

BPanelPanics(p) ==
    IF FullPanelB(p)
    THEN BOverflow(p) \/ ~BAssertOut(p) \/ ~BAssertData(p)
    ELSE AnyOutside(out, BPanelWrites(p))

PackBPanel ==
    /\ pc = "pack_b"
    /\ panel < NPanelsB
    /\ IF FullPanelB(panel) /\ BPanelPanics(panel)
       THEN /\ pc' = "panicked"
            /\ UNCHANGED <<out, panel, oob>>
       ELSE /\ out' = WriteAll(out, BPanelWrites(panel))
            /\ oob' = [read |-> oob.read
                           \/ \E o \in BPanelReadOffsets(panel) :
                                 o < 0 \/ o >= StorageLen(args.m),
                       write |-> oob.write
                           \/ (FullPanelB(panel)
                               /\ AnyOutside(out, BPanelWrites(panel))),
                       pad_read |-> oob.pad_read
                           \/ \E c \in BPanelCells(panel) :
                                 BReads(panel, c[2]) /\ BIsPadding(panel, c[2])]
            /\ IF BPanelPanics(panel)
               THEN pc' = "panicked" /\ panel' = panel
               ELSE pc' = pc /\ panel' = panel + 1
    /\ UNCHANGED <<args, nonPackVars>>

BSpareStart == NPanelsB * b_rows * args.tile

PackBSpare ==
    /\ pc = "pack_b"
    /\ panel = NPanelsB
    /\ IF BSpareStart > Len(out)
       THEN pc' = "panicked" /\ out' = out
       ELSE pc' = "returned" /\ out' = ZeroSpare(out, BSpareStart)
    /\ UNCHANGED <<args, panel, oob, nonPackVars>>

(***************************************************************************)
(* Option / Result values                                                  *)
(***************************************************************************)
None == [tag |-> "None", val |-> <<>>]
Some(v) == [tag |-> "Some", val |-> v]
Panic == [tag |-> "Panic", val |-> <<>>]
NotCalled == [tag |-> "NotCalled", val |-> <<>>]

(***************************************************************************)
(* Shapes                                                                  *)
(***************************************************************************)
Shapes == UNION { [1..n -> 0..MaxSize] : n \in 0..MaxRank }

RECURSIVE Product(_)
Product(s) == IF s = <<>> THEN 1 ELSE Head(s) * Product(Tail(s))

Reverse(s) == [i \in 1..Len(s) |-> s[Len(s) + 1 - i]]

Ones(n) == [i \in 1..n |-> 1]

\* usize::saturating_sub
SaturatingSub(x, y) == IF x > y THEN x - y ELSE 0

\* Mutant: the larger size of a compatible pair is pushed.
BroadcastDimLarger(x, y) ==
    IF x = y \/ x = 1 \/ y = 1 THEN Some(Max(x, y)) ELSE None

\* Mutant: only the first shape may be stretched.
BroadcastDimOneSided(x, y) ==
    IF x = y THEN Some(x)
    ELSE IF x = 1 THEN Some(y)
    ELSE None

\* The body of the loop of broadcast_shapes for one aligned pair (x, y).
BroadcastDim(x, y) ==
    IF x = y THEN Some(x)
    ELSE IF x = 1 THEN Some(y)
    ELSE IF y = 1 THEN Some(x)
    ELSE None

\* zip(a_iter, b_iter) folded into `result`; None as soon as a pair fails.
RECURSIVE BroadcastLoop(_, _, _, _)
BroadcastLoop(a_iter, b_iter, i, result) ==
    IF i > Len(a_iter) \/ i > Len(b_iter)
    THEN Some(result)
    ELSE LET d == BroadcastDim(a_iter[i], b_iter[i])
         IN IF d.tag = "None"
            THEN None
            ELSE BroadcastLoop(a_iter, b_iter, i + 1, Append(result, d.val))

broadcast_shapes(a, b) ==
    LET a_pad == SaturatingSub(Len(b), Len(a))
        b_pad == SaturatingSub(Len(a), Len(b))
        a_iter == Reverse(a) \o Ones(a_pad)
        b_iter == Reverse(b) \o Ones(b_pad)
        r == BroadcastLoop(a_iter, b_iter, 1, <<>>)
    IN IF r.tag = "None" THEN None ELSE Some(Reverse(r.val))

(***************************************************************************)
(* fast_broadcast_cycles_repeats(from_shape, to_shape)                     *)
(***************************************************************************)
\* The closure from_size: from_shape implicitly left-padded with 1s.
\* `dim` is the 0-based axis of to_shape.
from_size(from_shape, to_shape, dim) ==
    LET from_pad == Len(to_shape) - Len(from_shape)
    IN IF dim < from_pad THEN 1 ELSE from_shape[dim - from_pad + 1]

\* Mutant: a target size of 0 counts as a broadcast axis too.
IsBcastAxisAnySize(from, to) == from = 1 /\ to # 1

\* `else if from == 1 && to > 1` of the two scan loops
IsBcastAxis(from, to) == from = 1 /\ to > 1

\* First loop: scan from axis i upwards until an axis that is neither a
\* common 1 nor a broadcast axis.  acc = [ones, bcast, prod].
RECURSIVE ScanLeading(_, _, _, _)
ScanLeading(from_shape, to_shape, i, acc) ==
    IF i >= Len(to_shape)
    THEN acc
    ELSE LET from == from_size(from_shape, to_shape, i)
             to == to_shape[i + 1]
         IN IF from = 1 /\ to = 1
            THEN ScanLeading(from_shape, to_shape, i + 1,
                             [acc EXCEPT !.ones = @ + 1])
            ELSE IF IsBcastAxis(from, to)
            THEN ScanLeading(from_shape, to_shape, i + 1,
                             [acc EXCEPT !.bcast = @ + 1, !.prod = @ * to])
            ELSE acc

\* Second loop: the same scan from the last axis downwards.
RECURSIVE ScanTrailing(_, _, _, _)
ScanTrailing(from_shape, to_shape, i, acc) ==
    IF i < 0
    THEN acc
    ELSE LET from == from_size(from_shape, to_shape, i)
             to == to_shape[i + 1]
         IN IF from = 1 /\ to = 1
            THEN ScanTrailing(from_shape, to_shape, i - 1,
                              [acc EXCEPT !.ones = @ + 1])
            ELSE IF IsBcastAxis(from, to)
            THEN ScanTrailing(from_shape, to_shape, i - 1,
                              [acc EXCEPT !.bcast = @ + 1, !.prod = @ * to])
            ELSE acc

\* Mutant: the products start at 2.
ScanStartDoubled == [ones |-> 0, bcast |-> 0, prod |-> 2]

\* `leading_1s = 0`, `leading_bcast = 0`, `cycles = 1` and their trailing
\* counterparts
ScanStart == [ones |-> 0, bcast |-> 0, prod |-> 1]

\* Mutant: the middle axes are not compared.
MiddleMatchesUnchecked(from_shape, to_shape, lo, hi) == TRUE

\* Third loop: every axis in lo..hi-1 must have from == to.
MiddleMatches(from_shape, to_shape, lo, hi) ==
    \A i \in lo..(hi - 1) :
        from_size(from_shape, to_shape, i) = to_shape[i + 1]

fast_broadcast_cycles_repeats(from_shape, to_shape) ==
    IF from_shape = to_shape THEN Some(<<1, 1>>)
    ELSE IF Product(from_shape) = 1 THEN Some(<<1, Product(to_shape)>>)
    ELSE IF ~(Len(to_shape) >= Len(from_shape)) THEN Panic
    ELSE LET lead == ScanLeading(from_shape, to_shape, 0, ScanStart)
             trail == ScanTrailing(from_shape, to_shape, Len(to_shape) - 1,
                                   ScanStart)
             lo == lead.ones + lead.bcast
             hi == Len(to_shape) - trail.ones - trail.bcast
         IN IF hi < 0 THEN Panic
            ELSE IF MiddleMatches(from_shape, to_shape, lo, hi)
            THEN Some(<<lead.prod, trail.prod>>)
            ELSE None

(***************************************************************************)
(* Tensors and views (crate rten_tensor / wasnn_tensor).                   *)
(* A tensor is a shape, one stride per dimension and a storage slice; the  *)
(* element with multi-index ix lives at storage offset SUM ix[i]*stride[i].*)
(***************************************************************************)
\* Row-major default strides of a shape.
ContigStrides(shape) ==
    [i \in 1..Len(shape) |-> Product(SubSeq(shape, i + 1, Len(shape)))]

\* Tensor::from_data(shape, data): an owned, contiguous tensor.
\* Tensor::from_scalar(value) is from_data(<<>>, <<value>>).
from_data(shape, data) ==
    [shape |-> shape, strides |-> ContigStrides(shape), data |-> data]

\* A view that takes every second element of its storage: all strides are
\* twice the row-major default, the gaps hold 999.
stepped_view(shape, elts) ==
    [shape |-> shape,
     strides |-> LET steps == ContigStrides(shape)
                 IN [i \in 1..Len(shape) |-> 2 * steps[i]],
     data |-> [o \in 1..(2 * Len(elts)) |->
                  IF o % 2 = 1 THEN elts[(o + 1) \div 2] ELSE 999]]

\* A tensor without elements, where no tensor is present.
NoTensor == from_data(<<0>>, <<>>)

is_contiguous(t) == t.strides = ContigStrides(t.shape)

\* Storage offset of the k-th element (k counted from 0) in row-major
\* logical order; `steps` are the row-major default strides of the shape
\* and dims i..ndim are still to be added.
RECURSIVE OffsetFrom(_, _, _, _)
OffsetFrom(t, steps, k, i) ==
    IF i > Len(t.shape)
    THEN 0
    ELSE ((k \div steps[i]) % t.shape[i]) * t.strides[i]
         + OffsetFrom(t, steps, k, i + 1)

\* The storage offsets of all elements in row-major logical order.
Offsets(t) ==
    LET steps == ContigStrides(t.shape)
    IN [k \in 1..Product(t.shape) |-> OffsetFrom(t, steps, k - 1, 1)]

\* iter(): the elements in row-major logical order.
Elements(t) ==
    LET offsets == Offsets(t)
    IN [k \in 1..Len(offsets) |-> t.data[offsets[k] + 1]]

\* item(): the element of a tensor that has exactly one.
item(t) == IF Product(t.shape) = 1 THEN Some(Elements(t)[1]) ELSE None

\* can_broadcast_to(target): right-aligned, every size of the view equals
\* the target size or is 1, and the view has no more dimensions.
can_broadcast_to(from_shape, to_shape) ==
    /\ Len(from_shape) <= Len(to_shape)
    /\ \A i \in 1..Len(from_shape) :
           LET to == to_shape[Len(to_shape) - Len(from_shape) + i]
           IN from_shape[i] = to \/ from_shape[i] = 1

\* broadcast_iter(target): iter() of the view broadcast_to(target) gives,
\* which sees the same storage with the target shape; a stretched or added
\* axis has stride 0.
broadcast_iter(t, shape) ==
    LET pad == Len(shape) - Len(t.shape)
    IN Elements([shape |-> shape,
                 strides |-> [i \in 1..Len(shape) |->
                                 IF i <= pad THEN 0
                                 ELSE IF t.shape[i - pad] = shape[i]
                                      THEN t.strides[i - pad]
                                      ELSE 0],
                 data |-> t.data])

\* map(f): a new contiguous tensor of the same shape; new_elts are the
\* values of f on iter().
map(t, new_elts) == from_data(t.shape, new_elts)

\* The storage `data` after the logical elements k, k+1, ... were set to
\* elts[k], elts[k+1], ...
RECURSIVE StoreFrom(_, _, _, _)
StoreFrom(data, offsets, elts, k) ==
    IF k > Len(elts) \/ k > Len(offsets)
    THEN data
    ELSE StoreFrom([data EXCEPT ![offsets[k] + 1] = elts[k]],
                   offsets, elts, k + 1)

\* apply(f): every element is replaced in place; new_elts are the values
\* of f on iter().
apply(t, new_elts) ==
    [t EXCEPT !.data = StoreFrom(t.data, Offsets(t), new_elts, 1)]

(***************************************************************************)
(* Element functions.  An i32 result is an integer.  An f32 result is kept *)
(* as the term <<operation, x, y>> of the arithmetic that produced it.     *)
(***************************************************************************)
\* i32 `/`: the quotient is truncated toward zero.
TruncDiv(x, y) ==
    LET q == (IF x < 0 THEN -x ELSE x) \div (IF y < 0 THEN -y ELSE y)
    IN IF (x < 0) = (y < 0) THEN q ELSE -q

\* Mutant: the remainder is not moved to the sign of the divisor.
RemFloorUnadjusted(x, y) == x - y * TruncDiv(x, y)

\* rem_floor; `x % y` of i32 is x - y * (x / y).
rem_floor(x, y) ==
    LET rem == x - y * TruncDiv(x, y)
    IN IF (rem > 0 /\ y < 0) \/ (rem < 0 /\ y > 0) THEN rem + y ELSE rem

\* The closures handed to binary_op / binary_op_in_place; a bool result is
\* converted with i32::from.
ElemOp(op, x, y) ==
    IF op.dtype = "f32" THEN <<op.name, x, y>>
    ELSE CASE op.name = "add" -> x + y
           [] op.name = "sub" -> x - y
           [] op.name = "mul" -> x * y
           [] op.name = "div" -> TruncDiv(x, y)
           [] op.name = "mod_floor" -> rem_floor(x, y)
           [] op.name = "mod_trunc" -> x - y * TruncDiv(x, y)
           [] op.name = "equal" -> IF x = y THEN 1 ELSE 0
           [] op.name = "less" -> IF x < y THEN 1 ELSE 0
           [] op.name = "less_or_equal" -> IF x <= y THEN 1 ELSE 0
           [] op.name = "greater" -> IF x > y THEN 1 ELSE 0
           [] op.name = "greater_or_equal" -> IF x >= y THEN 1 ELSE 0
           [] op.name = "and" -> IF x # 0 /\ y # 0 THEN 1 ELSE 0
           [] op.name = "or" -> IF x # 0 \/ y # 0 THEN 1 ELSE 0
           [] op.name = "xor" -> IF (x # 0) # (y # 0) THEN 1 ELSE 0

\* powf with its two shortcuts.
powf(x, y) ==
    IF y = 2 THEN <<"mul", x, x>>
    ELSE IF y = 3 THEN <<"mul", <<"mul", x, x>>, x>>
    ELSE <<"powf", x, y>>

\* i32::MAX and i32::MIN
I32Max == 2147483647
I32Min == -I32Max - 1

\* The f32 values handed to Clip are kept on an integer scale: f32::MAX is
\* F32Max, f32::MIN is -F32Max, and the two infinities lie one step beyond.
F32Max == 1000
Infinity == F32Max + 1

\* Clamp::min_val and Clamp::max_val
min_val(dtype) == IF dtype = "f32" THEN -F32Max ELSE I32Min
max_val(dtype) == IF dtype = "f32" THEN F32Max ELSE I32Max

\* Mutant: the upper bound is applied before the lower bound.
ClampUpperFirst(x, min, max) == Max(Min(x, max), min)

\* Clamp::clamp
clamp(x, min, max) == Min(Max(x, min), max)

\* The closures handed to map / apply, over the elements in iter() order.
UnaryElems(f, elts) ==
    [k \in 1..Len(elts) |->
        CASE f.name = "abs" -> IF elts[k] < 0 THEN -elts[k] ELSE elts[k]
          [] f.name = "not" -> IF elts[k] = 0 THEN 1 ELSE 0
          [] f.name = "clamp" -> clamp(elts[k], f.min, f.max)
          [] f.name = "powf" -> powf(elts[k], f.exp)]

(***************************************************************************)
(* Results of an operator call.  path, lhs, rhs and op are ghost fields:   *)
(* which path produced the tensor, and with which operands and closure     *)
(* binary_op or binary_op_in_place was entered.                            *)
(***************************************************************************)
Closure(name, dtype) == [name |-> name, dtype |-> dtype]

Ok(t, path, lhs, rhs, op) ==
    [tag |-> "Ok", val |-> t, path |-> path, lhs |-> lhs, rhs |-> rhs,
     op |-> op]

\* "Err" (OpError::IncompatibleInputShapes), "Panic", or "NotCalled".
NoResult(tag) ==
    [tag |-> tag, val |-> NoTensor, path |-> "none", lhs |-> NoTensor,
     rhs |-> NoTensor, op |-> Closure("none", "i32")]

(***************************************************************************)
(* binary_op and binary_op_in_place                                        *)
(***************************************************************************)
\* Mutant: the roles of cycles and repeats are exchanged.
FastLoopOperandsExchanged(b_data, cycles, repeats, c, j, r) ==
    [n \in 1..(cycles * Len(b_data) * repeats) |->
        b_data[(((n - 1) \div cycles) % Len(b_data)) + 1]]

\* The b element used at each value of the counter i of the fast loops,
\* from the point where the cycle loop is at c, the loop over b_data at
\* element j and the repeat loop at r.  With repeats = 1 the repeat loop is
\* absent and each element is used once.
RECURSIVE FastLoopOperands(_, _, _, _, _, _)
FastLoopOperands(b_data, cycles, repeats, c, j, r) ==
    IF c >= cycles
    THEN <<>>
    ELSE IF j > Len(b_data)
    THEN FastLoopOperands(b_data, cycles, repeats, c + 1, 1, 0)
    ELSE IF r >= repeats
    THEN FastLoopOperands(b_data, cycles, repeats, c, j + 1, 0)
    ELSE <<b_data[j]>>
         \o FastLoopOperands(b_data, cycles, repeats, c, j, r + 1)

\* i32 division and remainder panic on a zero divisor.
AnyElemPanics(op, xs, ys) ==
    /\ op.dtype = "i32"
    /\ op.name \in {"div", "mod_floor", "mod_trunc"}
    /\ \E i \in 1..Min(Len(xs), Len(ys)) : ys[i] = 0

\* zip(xs, ys).map(op)
ZipOp(op, xs, ys) ==
    [i \in 1..Min(Len(xs), Len(ys)) |-> ElemOp(op, xs[i], ys[i])]

\* The fast path of binary_op, entered with a_data, b_data and
\* Some((cycles, repeats)).
BinaryOpFast(a, b, op, out_shape, cycles, repeats) ==
    IF cycles * Len(b.data) * repeats # Product(a.shape)
    THEN NoResult("Panic")
    ELSE LET b_elts == FastLoopOperands(b.data, cycles, repeats, 0, 1, 0)
         IN IF AnyElemPanics(op, a.data, b_elts)
            THEN NoResult("Panic")
            ELSE IF Len(b_elts) # Product(out_shape)
            THEN NoResult("Panic")
            ELSE Ok(from_data(out_shape, ZipOp(op, a.data, b_elts)),
                    "fast", a, b, op)

\* The general path of binary_op: both operands through broadcast_iter.
BinaryOpFallback(a, b, op, out_shape) ==
    LET a_elts == broadcast_iter(a, out_shape)
        b_elts == broadcast_iter(b, out_shape)
    IN IF AnyElemPanics(op, a_elts, b_elts)
       THEN NoResult("Panic")
       ELSE Ok(from_data(out_shape, ZipOp(op, a_elts, b_elts)),
               "fallback", a, b, op)

\* Mutant: the Option of broadcast_shapes is unwrapped instead of turned
\* into an error.
BinaryOpUnwrapsShape(a, b, op) ==
    LET out_shape == broadcast_shapes(a.shape, b.shape)
    IN IF out_shape.tag = "None"
       THEN NoResult("Panic")
       ELSE BinaryOpFallback(a, b, op, out_shape.val)

\* a.data() and b.data() are Some for contiguous tensors only.
binary_op(a, b, op) ==
    LET out_shape == broadcast_shapes(a.shape, b.shape)
    IN IF out_shape.tag = "None"
       THEN NoResult("Err")
       ELSE LET params ==
                    IF /\ a.shape = out_shape.val
                       /\ is_contiguous(a)
                       /\ is_contiguous(b)
                    THEN fast_broadcast_cycles_repeats(b.shape, a.shape)
                    ELSE None
            IN IF params.tag = "Panic"
               THEN NoResult("Panic")
               ELSE IF params.tag = "Some"
               THEN BinaryOpFast(a, b, op, out_shape.val,
                                 params.val[1], params.val[2])
               ELSE BinaryOpFallback(a, b, op, out_shape.val)

\* The fast path of binary_op_in_place: a_data[i] = op(a_data[i], b_elt)
\* for the counter values the loops reach; the rest of a stays.
InPlaceFast(a, b, op, cycles, repeats) ==
    IF cycles * Len(b.data) * repeats # Product(a.shape)
    THEN NoResult("Panic")
    ELSE LET b_elts == FastLoopOperands(b.data, cycles, repeats, 0, 1, 0)
         IN IF AnyElemPanics(op, a.data, b_elts)
            THEN NoResult("Panic")
            ELSE Ok([a EXCEPT !.data =
                        [i \in 1..Len(a.data) |->
                            IF i <= Len(b_elts)
                            THEN ElemOp(op, a.data[i], b_elts[i])
                            ELSE a.data[i]]],
                    "fast", a, b, op)

\* Mutant: the general in-place path walks b without broadcasting it.
InPlaceFallbackUnbroadcast(a, b, op) ==
    LET a_elts == Elements(a)
        elts == Elements(b)
        b_elts == [k \in 1..Len(a_elts) |->
                      elts[((k - 1) % Max(1, Len(elts))) + 1]]
    IN IF ~can_broadcast_to(b.shape, a.shape)
       THEN NoResult("Panic")
       ELSE IF AnyElemPanics(op, a_elts, b_elts)
       THEN NoResult("Panic")
       ELSE Ok([a EXCEPT !.data =
                   StoreFrom(a.data, Offsets(a), ZipOp(op, a_elts, b_elts), 1)],
               "fallback", a, b, op)

\* The general path of binary_op_in_place: zip(a.iter_mut(),
\* b.broadcast_iter(a.shape())); broadcast_iter panics when b cannot be
\* broadcast to the shape of a.
InPlaceFallback(a, b, op) ==
    IF ~can_broadcast_to(b.shape, a.shape)
    THEN NoResult("Panic")
    ELSE LET a_elts == Elements(a)
             b_elts == broadcast_iter(b, a.shape)
         IN IF AnyElemPanics(op, a_elts, b_elts)
            THEN NoResult("Panic")
            ELSE Ok([a EXCEPT !.data =
                        StoreFrom(a.data, Offsets(a),
                                  ZipOp(op, a_elts, b_elts), 1)],
                    "fallback", a, b, op)

binary_op_in_place(a, b, op) ==
    LET params ==
            IF is_contiguous(a) /\ is_contiguous(b)
            THEN fast_broadcast_cycles_repeats(b.shape, a.shape)
            ELSE None
    IN IF params.tag = "Panic"
       THEN NoResult("Panic")
       ELSE IF params.tag = "Some"
       THEN InPlaceFast(a, b, op, params.val[1], params.val[2])
       ELSE InPlaceFallback(a, b, op)

binary_commutative_op(a, b, op) ==
    IF Product(b.shape) > Product(a.shape)
    THEN binary_op(b, a, op)
    ELSE binary_op(a, b, op)

can_run_binary_op_in_place(a, b) == can_broadcast_to(b.shape, a.shape)

\* Mutant: the number of repeats is not looked at.
FastBroadcastCyclesAnyRepeats(from_shape, to_shape) ==
    IF Product(from_shape) = 1
    THEN Some(Product(to_shape))
    ELSE LET params == fast_broadcast_cycles_repeats(from_shape, to_shape)
         IN IF params.tag = "Some" THEN Some(params.val[1]) ELSE params

\* fast_broadcast_cycles: Some(cycles) when cycling the whole sequence alone
\* broadcasts from_shape to to_shape.
fast_broadcast_cycles(from_shape, to_shape) ==
    IF Product(from_shape) = 1
    THEN Some(Product(to_shape))
    ELSE LET params == fast_broadcast_cycles_repeats(from_shape, to_shape)
         IN IF params.tag = "Some"
            THEN IF params.val[2] = 1 THEN Some(params.val[1]) ELSE None
            ELSE params

\* where_op(cond, x, y).  The fast path zips the three cycled data slices
\* and takes out_len items (an empty slice cycles to nothing); the general
\* path zips the three broadcast iterators.  from_data panics when the
\* number of elements is not the product of the shape.
where_op(cond, x, y) ==
    LET xy_shape == broadcast_shapes(x.shape, y.shape)
        result_shape == IF xy_shape.tag = "None" THEN None
                        ELSE broadcast_shapes(cond.shape, xy_shape.val)
        shape == result_shape.val
        cycles == {fast_broadcast_cycles(t.shape, shape) : t \in {cond, x, y}}
        out_len == Product(shape)
        taken == IF \E t \in {cond, x, y} : t.data = <<>> THEN 0 ELSE out_len
        cycled == [k \in 1..taken |->
                      IF cond.data[((k - 1) % Len(cond.data)) + 1] # 0
                      THEN x.data[((k - 1) % Len(x.data)) + 1]
                      ELSE y.data[((k - 1) % Len(y.data)) + 1]]
        cond_elts == broadcast_iter(cond, shape)
        x_elts == broadcast_iter(x, shape)
        y_elts == broadcast_iter(y, shape)
        zipped == [k \in 1..out_len |->
                      IF cond_elts[k] # 0 THEN x_elts[k] ELSE y_elts[k]]
        can_cycle == /\ \A c \in cycles : c.tag = "Some"
                     /\ \A t \in {cond, x, y} : is_contiguous(t)
    IN IF result_shape.tag = "None" THEN NoResult("Err")
       ELSE IF \E c \in cycles : c.tag = "Panic" THEN NoResult("Panic")
       ELSE IF can_cycle /\ taken # out_len THEN NoResult("Panic")
       ELSE Ok(from_data(shape, IF can_cycle THEN cycled ELSE zipped),
               IF can_cycle THEN "cycle" ELSE "zip", x, y,
               Closure("where", "i32"))

(***************************************************************************)
(* The elementwise functions and their in-place variants                   *)
(***************************************************************************)
add(a, b, dtype) == binary_commutative_op(a, b, Closure("add", dtype))

add_in_place(a, b, dtype) == binary_op_in_place(a, b, Closure("add", dtype))

sub(a, b, dtype) == binary_op(a, b, Closure("sub", dtype))

sub_in_place(a, b, dtype) == binary_op_in_place(a, b, Closure("sub", dtype))

mul(a, b, dtype) == binary_commutative_op(a, b, Closure("mul", dtype))

mul_in_place(a, b, dtype) == binary_op_in_place(a, b, Closure("mul", dtype))

\* Mutant: the rewrite to a multiplication by the reciprocal is applied to
\* every element type.
DivByReciprocal(a, b, dtype) ==
    IF item(b).tag = "Some"
    THEN mul(a, from_data(<<>>, <<IF dtype = "f32"
                                  THEN <<"div", 1, item(b).val>>
                                  ELSE IF item(b).val \in {1, -1}
                                       THEN item(b).val ELSE 0>>), dtype)
    ELSE binary_op(a, b, Closure("div", dtype))

\* (false, Some(scalar)) => mul(a, from_scalar(T::one() / *scalar))
div(a, b, dtype) ==
    IF dtype = "f32" /\ item(b).tag = "Some"
    THEN mul(a, from_data(<<>>, << <<"div", 1, item(b).val>> >>), dtype)
    ELSE binary_op(a, b, Closure("div", dtype))

div_in_place(a, b, dtype) ==
    IF dtype = "f32" /\ item(b).tag = "Some"
    THEN mul_in_place(a, from_data(<<>>, << <<"div", 1, item(b).val>> >>),
                      dtype)
    ELSE binary_op_in_place(a, b, Closure("div", dtype))

pow(a, b) ==
    IF item(b).tag = "Some"
    THEN Ok(map(a, UnaryElems([name |-> "powf", exp |-> item(b).val],
                                 Elements(a))),
            "map", a, b, Closure("pow", "f32"))
    ELSE binary_op(a, b, Closure("powf", "f32"))

pow_in_place(a, b) ==
    IF item(b).tag = "Some"
    THEN Ok(apply(a, UnaryElems([name |-> "powf", exp |-> item(b).val],
                                   Elements(a))),
            "apply", a, b, Closure("pow", "f32"))
    ELSE binary_op_in_place(a, b, Closure("powf", "f32"))

\* min.unwrap_or(T::min_val()), max.unwrap_or(T::max_val())
clip(input, min, max, dtype) ==
    LET lo == IF min.tag = "Some" THEN min.val ELSE min_val(dtype)
        hi == IF max.tag = "Some" THEN max.val ELSE max_val(dtype)
    IN Ok(map(input, UnaryElems([name |-> "clamp", min |-> lo, max |-> hi],
                                 Elements(input))),
          "map", input, NoTensor, Closure("clip", dtype))

clip_in_place(input, min, max, dtype) ==
    LET lo == IF min.tag = "Some" THEN min.val ELSE min_val(dtype)
        hi == IF max.tag = "Some" THEN max.val ELSE max_val(dtype)
    IN Ok(apply(input, UnaryElems([name |-> "clamp", min |-> lo, max |-> hi],
                                   Elements(input))),
          "apply", input, NoTensor, Closure("clip", dtype))

(***************************************************************************)
(* Operators                                                               *)
(***************************************************************************)
\* Mod::run: the closure mod_op hands to binary_op, DivMode::TruncDiv when
\* fmod is set and DivMode::FloorDiv otherwise.
Mod(fmod) == Closure(IF fmod THEN "mod_trunc" ELSE "mod_floor", "i32")

\* The binary functions together with the element type they are called at.
BinaryFns ==
    {Closure(n, "i32") :
        n \in {"add", "sub", "mul", "div", "equal", "less", "less_or_equal",
               "greater", "greater_or_equal", "and", "or", "xor"}}
    \cup {Mod(fmod) : fmod \in BOOLEAN}
    \cup {Closure("div", "f32"), Closure("pow", "f32")}

UnaryFns ==
    {Closure(n, "i32") : n \in {"abs", "clip", "not"}}
    \cup {Closure("clip", "f32")}

\* Functions with a public *_in_place variant.
HasInPlaceFn(fn) ==
    fn.name \in {"add", "sub", "mul", "div", "pow", "clip", "not"}

\* Operator::run: the copying function.  mod_op, the comparisons
\* (boolean_op) and and/or/xor hand their closure to binary_op; abs and not
\* map theirs over the input; Where takes the condition, x and y.
Run(c) ==
    CASE c.fn.name = "add" -> add(c.a, c.b, c.fn.dtype)
      [] c.fn.name = "sub" -> sub(c.a, c.b, c.fn.dtype)
      [] c.fn.name = "mul" -> mul(c.a, c.b, c.fn.dtype)
      [] c.fn.name = "div" -> div(c.a, c.b, c.fn.dtype)
      [] c.fn.name = "pow" -> pow(c.a, c.b)
      [] c.fn.name = "abs" ->
            Ok(map(c.a, UnaryElems(c.fn, Elements(c.a))),
               "map", c.a, NoTensor, c.fn)
      [] c.fn.name = "clip" -> clip(c.a, c.min, c.max, c.fn.dtype)
      [] c.fn.name = "not" ->
            Ok(map(c.a, UnaryElems(c.fn, Elements(c.a))),
               "map", c.a, NoTensor, c.fn)
      [] c.fn.name = "where" -> where_op(c.cond, c.a, c.b)
      [] OTHER -> binary_op(c.a, c.b, c.fn)

\* The *_in_place function on a mutable view of a; Abs::run_in_place
\* applies its closure directly.
InPlaceFn(c) ==
    CASE c.fn.name = "add" -> add_in_place(c.a, c.b, c.fn.dtype)
      [] c.fn.name = "sub" -> sub_in_place(c.a, c.b, c.fn.dtype)
      [] c.fn.name = "mul" -> mul_in_place(c.a, c.b, c.fn.dtype)
      [] c.fn.name = "div" -> div_in_place(c.a, c.b, c.fn.dtype)
      [] c.fn.name = "pow" -> pow_in_place(c.a, c.b)
      [] c.fn.name = "abs" ->
            Ok(apply(c.a, UnaryElems(c.fn, Elements(c.a))),
               "apply", c.a, NoTensor, c.fn)
      [] c.fn.name = "clip" -> clip_in_place(c.a, c.min, c.max, c.fn.dtype)
      [] c.fn.name = "not" ->
            Ok(apply(c.a, UnaryElems(c.fn, Elements(c.a))),
               "apply", c.a, NoTensor, c.fn)

\* run_typed_op_in_place!, Pow::run_in_place and the run_in_place methods
\* of the unary operators.
RunInPlace(c) ==
    IF c.fn \in UnaryFns THEN InPlaceFn(c)
    ELSE IF can_run_binary_op_in_place(c.a, c.b) THEN InPlaceFn(c)
    ELSE Run(c)

IdleOps ==
    /\ call = [fn |-> Closure("none", "i32"), a |-> NoTensor, b |-> NoTensor,
               cond |-> NoTensor, min |-> None, max |-> None]
    /\ run_result = NoResult("NotCalled")
    /\ inplace = NoResult("NotCalled")
    /\ op_inplace = NoResult("NotCalled")

(***************************************************************************)
(* Resize (src/src/ops/resize.rs).                                         *)
(* A non-negative f32 is the pair <<n, k>> with value n / 2^k and n below  *)
(* 2^24; a scale factor handed in by the caller is a multiple of 1/2 and   *)
(* is kept as its double.  Quotients and products are rounded to the 24    *)
(* bit significand of f32, to nearest, ties to even.                       *)
(***************************************************************************)
\* `n as f32 / b as f32` for integers n >= 0 and 0 < b < 128, from the
\* point where the dividend has been scaled by 2^e.
RECURSIVE DivF32(_, _, _)
DivF32(n, b, e) ==
    IF n = 0 THEN <<0, 0>>
    ELSE IF n < 2^23 * b THEN DivF32(2 * n, b, e + 1)
    ELSE LET q == n \div b
             r == n % b
             up == IF 2 * r > b \/ (2 * r = b /\ q % 2 = 1) THEN 1 ELSE 0
         IN IF q + up = 2^24 THEN <<2^23, e - 1>> ELSE <<q + up, e>>

\* `v * x` for the f32 v and x = c / 2^h with an integer 0 <= c < 256.  The
\* exact product is Q * 256 + R; s is the number of bits it has beyond 24.
MulF32(v, c, h) ==
    LET Q == (v[1] \div 256) * c + ((v[1] % 256) * c) \div 256
        R == ((v[1] % 256) * c) % 256
        s == IF Q < 2^16 THEN 0
             ELSE CHOOSE s \in 1..8 : Q >= 2^(15 + s) /\ Q < 2^(16 + s)
        floor == Q * 2^(8 - s) + R \div 2^s
        rem == R % 2^s
        up == IF s > 0 /\ (2 * rem > 2^s \/ (2 * rem = 2^s /\ floor % 2 = 1))
              THEN 1 ELSE 0
    IN <<floor + up, v[2] - s + h>>

\* input_coord.  HalfPixel subtracts 0.5 from a product p: the difference
\* is exact for p >= 0.5 and negative otherwise; a negative coordinate is
\* kept as <<-1, 0>>, its amount is never used.
input_coord(dest_coord, scale, mode) ==
    IF mode = "Asymmetric" THEN MulF32(scale, dest_coord, 0)
    ELSE LET p == MulF32(scale, 2 * dest_coord + 1, 1)
         IN IF p[1] < 2^(p[2] - 1) THEN <<-1, 0>>
            ELSE <<p[1] - 2^(p[2] - 1), p[2]>>

\* coord.clamp(0., size as f32 - 1.) for size >= 1
ClampCoord(coord, size) ==
    IF coord[1] < 0 THEN <<0, 0>>
    ELSE IF coord[1] \div 2^coord[2] >= size - 1 THEN <<size - 1, 0>>
    ELSE coord

\* Mutant: RoundPreferCeil and RoundPreferFloor resolve a tie the other way.
RoundCoordTiesExchanged(coord, mode) ==
    LET floor == coord[1] \div 2^coord[2]
        fract == coord[1] % 2^coord[2]
        tie == coord[2] >= 1 /\ fract = 2^(coord[2] - 1)
        ceil == IF fract > 0 THEN floor + 1 ELSE floor
        round == IF coord[2] >= 1 /\ fract >= 2^(coord[2] - 1)
                 THEN floor + 1 ELSE floor
    IN CASE mode = "Ceil" -> ceil
         [] mode = "Floor" -> floor
         [] mode = "RoundPreferCeil" -> IF tie THEN floor ELSE round
         [] mode = "RoundPreferFloor" -> IF tie THEN ceil ELSE round

\* The closure round_coord of nearest_resize; `as usize` truncates, and
\* f32::round rounds a tie away from zero.
round_coord(coord, mode) ==
    LET floor == coord[1] \div 2^coord[2]
        fract == coord[1] % 2^coord[2]
        tie == coord[2] >= 1 /\ fract = 2^(coord[2] - 1)
        ceil == IF fract > 0 THEN floor + 1 ELSE floor
        round == IF coord[2] >= 1 /\ fract >= 2^(coord[2] - 1)
                 THEN floor + 1 ELSE floor
    IN CASE mode = "Ceil" -> ceil
         [] mode = "Floor" -> floor
         [] mode = "RoundPreferCeil" -> IF tie THEN ceil ELSE round
         [] mode = "RoundPreferFloor" -> IF tie THEN floor ELSE round

\* The clamped input coordinates of the output coordinates 0, 1, ... along
\* one axis.
InputCoords(in_size, out_size, coord_mode) ==
    LET inv_scale == DivF32(in_size, out_size, 0)
    IN [d \in 0..(out_size - 1) |->
           ClampCoord(input_coord(d, inv_scale, coord_mode), in_size)]

\* nearest_resize on image j (= n * chans + c) of the input: the elements
\* of the output image in row-major order.
nearest_resize(input, j, out_h, out_w, mode, coord_mode) ==
    LET height == input.shape[3]
        width == input.shape[4]
        ys == InputCoords(height, out_h, coord_mode)
        xs == InputCoords(width, out_w, coord_mode)
        in_y == [y \in 0..(out_h - 1) |-> round_coord(ys[y], mode)]
        in_x == [x \in 0..(out_w - 1) |-> round_coord(xs[x], mode)]
    IN [i \in 1..(out_h * out_w) |->
           input.data[j * height * width + in_y[(i - 1) \div out_w] * width
                      + in_x[(i - 1) % out_w] + 1]]

\* bilinear_resize on image j of the input.  An element is kept as the four
\* input elements it interpolates and the two weights.
bilinear_resize(input, j, out_h, out_w, coord_mode) ==
    LET height == input.shape[3]
        width == input.shape[4]
        ys == InputCoords(height, out_h, coord_mode)
        xs == InputCoords(width, out_w, coord_mode)
        at(y, x) == input.data[j * height * width + y * width + x + 1]
    IN [i \in 1..(out_h * out_w) |->
           LET in_y == ys[(i - 1) \div out_w]
               in_x == xs[(i - 1) % out_w]
               in_y1 == in_y[1] \div 2^in_y[2]
               in_x1 == in_x[1] \div 2^in_x[2]
               in_y2 == Min(in_y1 + 1, height - 1)
               in_x2 == Min(in_x1 + 1, width - 1)
           IN [in_tl |-> at(in_y1, in_x1), in_tr |-> at(in_y1, in_x2),
               in_bl |-> at(in_y2, in_x1), in_br |-> at(in_y2, in_x2),
               weight_y |-> <<in_y[1] % 2^in_y[2], in_y[2]>>,
               weight_x |-> <<in_x[1] % 2^in_x[2], in_x[2]>>]]

\* A result of resize or Resize::run: `kernels` counts the calls of
\* nearest_resize and bilinear_resize.
ResizeResult(tag, err, val, kernels) ==
    [tag |-> tag, err |-> err, val |-> val, kernels |-> kernels]

\* `sizes` of resize.  target is [kind |-> "Scales" or "Sizes", t |-> the
\* tensor]; zip stops at the shorter of the input's shape and the scales.
target_sizes(input, target) ==
    LET given == Elements(target.t)
    IN IF target.kind = "Scales"
       THEN [i \in 1..Min(Len(input.shape), Len(given)) |->
                (input.shape[i] * given[i]) \div 2]
       ELSE given

\* Mutant: every dimension may be resized.
ResizeErrorAnyDimension(input, target) ==
    LET sizes == target_sizes(input, target)
    IN IF Len(target.t.shape) # 1 THEN "InvalidValue: must have 1 dims"
       ELSE IF Len(sizes) # Len(input.shape) THEN "IncompatibleInputShapes"
       ELSE IF \E i \in 1..Len(sizes) : sizes[i] < 0
       THEN "InvalidValue: scales/sizes must be positive"
       ELSE IF Len(input.shape) # 4
       THEN "InvalidValue: input must have 4 dims (NCHW)"
       ELSE ""

\* The checks of resize in their order; "" when all of them pass.
resize_error(input, target) ==
    LET sizes == target_sizes(input, target)
        ndim == Len(input.shape)
    IN IF Len(target.t.shape) # 1 THEN "InvalidValue: must have 1 dims"
       ELSE IF Len(sizes) # ndim THEN "IncompatibleInputShapes"
       ELSE IF \E i \in 1..Len(sizes) : sizes[i] < 0
       THEN "InvalidValue: scales/sizes must be positive"
       ELSE IF ndim # 4 THEN "InvalidValue: input must have 4 dims (NCHW)"
       ELSE IF \E dim \in 1..(ndim - 2) : sizes[dim] # input.shape[dim]
       THEN "UnsupportedValue: only height and width dimensions can be resized"
       ELSE ""

\* The loops of resize over n and c.  f32::clamp panics when its upper
\* bound is below the lower one, which it is for an image without rows or
\* without columns; that happens in the first call of a kernel.
resize_images(input, sizes, mode, coord_mode, nearest_mode) ==
    LET images == input.shape[1] * input.shape[2]
        image_len == sizes[3] * sizes[4]
        kernel(j) ==
            IF mode = "Nearest"
            THEN nearest_resize(input, j, sizes[3], sizes[4], nearest_mode,
                                coord_mode)
            ELSE bilinear_resize(input, j, sizes[3], sizes[4], coord_mode)
        output == [j \in 0..(images - 1) |-> kernel(j)]
    IN IF image_len > 0 /\ (input.shape[3] = 0 \/ input.shape[4] = 0)
       THEN ResizeResult("Panic", "", NoTensor, 1)
       ELSE ResizeResult("Ok", "",
                         from_data(sizes,
                                   [i \in 1..(images * image_len) |->
                                       output[(i - 1) \div image_len]
                                             [((i - 1) % image_len) + 1]]),
                         images)

\* Mutant: no early return for an empty output.
ResizeWithoutEarlyReturn(input, target, mode, coord_mode, nearest_mode) ==
    IF resize_error(input, target) # ""
    THEN ResizeResult("Err", resize_error(input, target), NoTensor, 0)
    ELSE resize_images(input, target_sizes(input, target), mode, coord_mode,
                       nearest_mode)

\* resize(input, target, mode, coord_mode, nearest_mode)
resize(input, target, mode, coord_mode, nearest_mode) ==
    LET sizes == target_sizes(input, target)
        error == resize_error(input, target)
    IN IF error # "" THEN ResizeResult("Err", error, NoTensor, 0)
       ELSE IF Product(sizes) = 0
       THEN ResizeResult("Ok", "", from_data(sizes, <<>>), 0)
       ELSE resize_images(input, sizes, mode, coord_mode, nearest_mode)

\* An operator input: a tensor and its element type.
Input(dtype, t) == [tag |-> "Some", dtype |-> dtype, val |-> t]

\* InputList::get_as::<dtype>(index) on the input at that index
get_as(input, dtype) ==
    IF input.tag = "None" THEN None
    ELSE IF input.dtype # dtype
    THEN [tag |-> "Err", val |-> "IncorrectInputType"]
    ELSE Some(input.val)

\* Mutant: an empty tensor is handed on.
GetOptionalInputKeepsEmpty(input, dtype) == get_as(input, dtype)

\* get_optional_input: `?` hands an error on, an empty tensor gives None.
get_optional_input(input, dtype) ==
    LET tensor == get_as(input, dtype)
    IN IF tensor.tag = "Some" /\ Product(tensor.val.shape) = 0 THEN None
       ELSE tensor

\* Resize::run on the inputs (input, roi, scales, sizes)
ResizeRun(c) ==
    LET input == get_as(c.input, "f32")
        roi == get_optional_input(c.roi, "f32")
        scales == get_optional_input(c.scales, "f32")
        sizes == get_optional_input(c.sizes, "i32")
    IN IF input.tag = "None"
       THEN ResizeResult("Err", "MissingInputs", NoTensor, 0)
       ELSE IF input.tag = "Err"
       THEN ResizeResult("Err", input.val, NoTensor, 0)
       ELSE IF roi.tag = "Err" THEN ResizeResult("Err", roi.val, NoTensor, 0)
       ELSE IF scales.tag = "Err"
       THEN ResizeResult("Err", scales.val, NoTensor, 0)
       ELSE IF sizes.tag = "Err"
       THEN ResizeResult("Err", sizes.val, NoTensor, 0)
       ELSE IF scales.tag = "Some"
       THEN resize(input.val, [kind |-> "Scales", t |-> scales.val],
                   c.mode, c.coord_mode, c.nearest_mode)
       ELSE IF sizes.tag = "Some"
       THEN resize(input.val, [kind |-> "Sizes", t |-> sizes.val],
                   c.mode, c.coord_mode, c.nearest_mode)
       ELSE ResizeResult("Err", "MissingInputs", NoTensor, 0)

\* The arguments of a call of resize or Resize::run
ResizeCall(input, roi, scales, sizes, target, modes) ==
    [input |-> input, roi |-> roi, scales |-> scales, sizes |-> sizes,
     target |-> target, mode |-> modes.mode, coord_mode |-> modes.coord_mode,
     nearest_mode |-> modes.nearest_mode]

IdleResize ==
    /\ resize_call = ResizeCall(None, None, None, None,
                                [kind |-> "none", t |-> NoTensor],
                                [mode |-> "Nearest",
                                 coord_mode |-> "HalfPixel",
                                 nearest_mode |-> "RoundPreferFloor"])
    /\ resize_result = ResizeResult("NotCalled", "", NoTensor, 0)
    /\ resize_run = ResizeResult("NotCalled", "", NoTensor, 0)

(***************************************************************************)
(* Concat, Slice and Add of src/src/ops/mod.rs.  Its tensors are owned and *)
(* contiguous; slice_in_place leaves a view of the input's storage.  An    *)
(* i32 cast to usize keeps its value when it is not negative; a negative   *)
(* number stands for that value plus 2^64.                                 *)
(***************************************************************************)
\* Mutant: the elements of b follow all the elements of a.
ConcatAppended(a, b, dim) ==
    IF Len(a.shape) # Len(b.shape) THEN Panic
    ELSE IF dim >= Len(a.shape) THEN Panic
    ELSE IF \E d \in 0..(Len(a.shape) - 1) :
                d # dim /\ a.shape[d + 1] # b.shape[d + 1]
    THEN Panic
    ELSE Some(from_data([a.shape EXCEPT ![dim + 1] = @ + b.shape[dim + 1]],
                        a.data \o b.data))

\* concat(a, b, dim)
concat(a, b, dim) ==
    IF Len(a.shape) # Len(b.shape) THEN Panic
    ELSE IF dim >= Len(a.shape) THEN Panic
    ELSE IF \E d \in 0..(Len(a.shape) - 1) :
                d # dim /\ a.shape[d + 1] # b.shape[d + 1]
    THEN Panic
    ELSE IF a.shape[dim + 1] = 0 THEN Some(b)
    ELSE IF b.shape[dim + 1] = 0 THEN Some(a)
    ELSE LET a_step_size == Product(SubSeq(a.shape, dim + 1, Len(a.shape)))
             b_step_size == Product(SubSeq(b.shape, dim + 1, Len(b.shape)))
             rounds == IF Len(a.data) = 0 \/ Len(b.data) = 0 THEN 0
                       ELSE Min(Len(a.data) \div a_step_size,
                                Len(b.data) \div b_step_size)
             step == a_step_size + b_step_size
             out_data == [k \in 1..(rounds * step) |->
                             LET round == (k - 1) \div step
                                 at == (k - 1) % step
                             IN IF at < a_step_size
                                THEN a.data[round * a_step_size + at + 1]
                                ELSE b.data[round * b_step_size
                                            + (at - a_step_size) + 1]]
         IN Some(from_data([a.shape EXCEPT ![dim + 1] = @ + b.shape[dim + 1]],
                           out_data))

\* The loop of slice_ranges from its i-th round on (i counts from 1).
\* starts and ends are the elements of the two tensors, axes is None or
\* Some(elements); indexing axes or ranges out of bounds panics.
RECURSIVE SliceRangesFrom(_, _, _, _, _)
SliceRangesFrom(ranges, starts, ends, axes, i) ==
    IF i > Min(Len(starts), Len(ends))
    THEN Some(ranges)
    ELSE IF axes.tag = "Some" /\ i > Len(axes.val)
    THEN Panic
    ELSE LET axis == IF axes.tag = "Some" THEN axes.val[i] ELSE i - 1
         IN IF axis < 0 \/ axis >= Len(ranges)
            THEN Panic
            ELSE SliceRangesFrom([ranges EXCEPT
                                     ![axis + 1] = <<starts[i], ends[i]>>],
                                 starts, ends, axes, i + 1)

\* slice_ranges(input_shape, starts, ends, axes)
slice_ranges(input_shape, starts, ends, axes) ==
    SliceRangesFrom([d \in 1..Len(input_shape) |-> <<0, input_shape[d]>>],
                    starts, ends, axes, 1)

\* A range the tensor accepts for an axis of `size` elements: not inverted
\* and not out of bounds.  A negative number is a usize above every size.
RangeInBounds(range, size) ==
    /\ range[1] >= 0
    /\ range[2] >= 0
    /\ range[1] <= range[2]
    /\ range[2] <= size

\* Tensor::clip_dim(dim, start, end): the view keeps the elements start ..
\* end - 1 of the axis.
clip_dim(t, dim, start, end) ==
    [shape |-> [t.shape EXCEPT ![dim + 1] = end - start],
     strides |-> t.strides,
     data |-> SubSeq(t.data, start * t.strides[dim + 1] + 1, Len(t.data))]

\* `for (dim, (start, end)) in ranges { input.clip_dim(dim, start, end) }`
\* from axis dim on.
RECURSIVE ClipDims(_, _, _)
ClipDims(t, ranges, dim) ==
    IF dim >= Len(ranges)
    THEN t
    ELSE ClipDims(clip_dim(t, dim, ranges[dim + 1][1], ranges[dim + 1][2]),
                  ranges, dim + 1)

\* Tensor::slice_elements(ranges): the elements inside the ranges in
\* row-major order.
slice_elements(t, ranges) == Elements(ClipDims(t, ranges, 0))

\* slice(input, starts, ends, axes)
slice(input, starts, ends, axes) ==
    LET ranges == slice_ranges(input.shape, starts, ends, axes)
    IN IF ranges.tag = "Panic" THEN Panic
       ELSE IF \E d \in 1..Len(input.shape) :
                   ~RangeInBounds(ranges.val[d], input.shape[d])
       THEN Panic
       ELSE Some(from_data([d \in 1..Len(input.shape) |->
                               ranges.val[d][2] - ranges.val[d][1]],
                           slice_elements(input, ranges.val)))

\* slice_in_place(input, starts, ends, axes): the input afterwards
slice_in_place(input, starts, ends, axes) ==
    LET ranges == slice_ranges(input.shape, starts, ends, axes)
    IN IF ranges.tag = "Panic" THEN Panic
       ELSE IF \E d \in 1..Len(input.shape) :
                   ~RangeInBounds(ranges.val[d], input.shape[d])
       THEN Panic
       ELSE Some(ClipDims(input, ranges.val, 0))

\* choose_broadcast_shape(a, b): the longer shape, and of two shapes of one
\* length the one that is greater as a slice (compared element by element
\* from the front).
choose_broadcast_shape(a, b) ==
    IF Len(a) # Len(b)
    THEN IF Len(a) < Len(b) THEN b ELSE a
    ELSE IF \E i \in 1..Len(a) :
                /\ a[i] < b[i]
                /\ \A j \in 1..(i - 1) : a[j] = b[j]
    THEN b
    ELSE a

\* binary_op(a, b, |x, y| x + y) of ops/mod.rs, which is add(a, b);
\* broadcast_elements panics when the tensor cannot be broadcast to the
\* shape.
mod_add(a, b) ==
    LET out_shape == choose_broadcast_shape(a.shape, b.shape)
    IN IF ~can_broadcast_to(a.shape, out_shape) THEN Panic
       ELSE IF ~can_broadcast_to(b.shape, out_shape) THEN Panic
       ELSE Some(from_data(out_shape,
                           [k \in 1..Product(out_shape) |->
                               broadcast_iter(a, out_shape)[k]
                               + broadcast_iter(b, out_shape)[k]]))

\* No function of ops/mod.rs is under test.
IdleMod ==
    /\ mod_call = [fn |-> "none"]
    /\ mod_result = NotCalled
    /\ mod_second = NotCalled

(***************************************************************************)
(* ModelBuilder (src/src/model_builder.rs).  `nodes` is the builder's      *)
(* vector of nodes; a node is kept as its kind, its name and its content.  *)
(***************************************************************************)
\* Mutant: the length after the push is returned.
AddNodeReturnsLength(ns, name, data) ==
    [nodes |-> Append(ns, [name |-> name, data_type |-> data.kind,
                           data |-> data]),
     id |-> Len(ns) + 1]

\* add_node(name, data): pushes the node and returns
\* `(self.nodes.len() - 1) as u32`.
add_node(ns, name, data) ==
    [nodes |-> Append(ns, [name |-> name, data_type |-> data.kind,
                           data |-> data]),
     id |-> (Len(ns) + 1) - 1]

add_constant_node(ns, shape, data_type, data) ==
    add_node(ns, None, [kind |-> "ConstantNode", shape |-> shape,
                        data_type |-> data_type, data |-> data])

add_float_constant(ns, input) ==
    add_constant_node(ns, input.shape, "FloatData", Elements(input))

add_int_constant(ns, input) ==
    add_constant_node(ns, input.shape, "IntData", Elements(input))

add_value(ns, id) == add_node(ns, Some(id), [kind |-> "ValueNode"])

add_operator(ns, id, op_info, inputs, outputs) ==
    add_node(ns, Some(id), [kind |-> "OperatorNode", type |-> op_info,
                            inputs |-> inputs, outputs |-> outputs])

\* finish(): the model written to the buffer
finish(ns) == Some([schema_version |-> 1, graph |-> [nodes |-> ns]])

\* No ModelBuilder is under test.
IdleBuilder ==
    /\ nodes = <<>>
    /\ ids = <<>>
    /\ model = NotCalled

(***************************************************************************)
(* Specification of the shape functions: the arguments are drawn from all  *)
(* shapes within the bounds, each function is applied once.                *)
(***************************************************************************)
IdleShapes ==
    /\ shapes = [a |-> <<>>, b |-> <<>>]
    /\ bs_ab = NotCalled
    /\ bs_ba = NotCalled
    /\ fast = NotCalled

CallBroadcastShapes ==
    /\ bs_ab = NotCalled
    /\ bs_ab' = broadcast_shapes(shapes.a, shapes.b)
    /\ UNCHANGED <<shapes, bs_ba, fast, nonShapeVars>>

CallBroadcastShapesSwapped ==
    /\ bs_ba = NotCalled
    /\ bs_ba' = broadcast_shapes(shapes.b, shapes.a)
    /\ UNCHANGED <<shapes, bs_ab, fast, nonShapeVars>>

CallFastBroadcast ==
    /\ fast = NotCalled
    /\ fast' = fast_broadcast_cycles_repeats(shapes.a, shapes.b)
    /\ UNCHANGED <<shapes, bs_ab, bs_ba, nonShapeVars>>

IdlePack ==
    /\ args = [kind |-> "none"]
    /\ out = <<>>
    /\ panel = 0
    /\ pc = "idle"
    /\ oob = [read |-> FALSE, write |-> FALSE, pad_read |-> FALSE]

InitShapes ==
    /\ shapes \in [a : Shapes, b : Shapes]
    /\ bs_ab = NotCalled
    /\ bs_ba = NotCalled
    /\ fast = NotCalled
    /\ IdlePack
    /\ IdleOps
    /\ IdleResize
    /\ IdleMod
    /\ IdleBuilder

NextShapes ==
    \/ CallBroadcastShapes
    \/ CallBroadcastShapesSwapped
    \/ CallFastBroadcast

SpecShapes == InitShapes /\ [][NextShapes]_vars

(***************************************************************************)
(* Specification of the packing routines                                   *)
(***************************************************************************)
InitPack ==
    /\ args \in [kind : {"a", "b"},
                 tile : 1..MaxTile,
                 m : { Matrix(s) : s \in Layouts },
                 rows : Ranges,
                 cols : Ranges,
                 overflow_checks : BOOLEAN]
    /\ \E n \in 0..MaxOut : out = [i \in 1..n |-> Uninit]
    /\ panel = 0
    /\ pc = IF args.kind = "a" THEN "pack_a" ELSE "pack_b"
    /\ oob = [read |-> FALSE, write |-> FALSE, pad_read |-> FALSE]
    /\ IdleShapes
    /\ IdleOps
    /\ IdleResize
    /\ IdleMod
    /\ IdleBuilder

NextPack ==
    \/ PackAPanel
    \/ PackASpare
    \/ PackBPanel
    \/ PackBSpare

SpecPack == InitPack /\ [][NextPack]_vars

(***************************************************************************)
(* Specification of the elementwise operators: one call, first through the *)
(* copying entry point, then through one of the in-place entry points on   *)
(* a clone of the same inputs.                                             *)
(***************************************************************************)
\* Operand shapes: every size is 1 or TensorSize, except that the first or
\* the last axis may be empty.
TensorShapes ==
    LET full == UNION { [1..n -> {1, TensorSize}] : n \in 0..TensorRank }
    IN full \cup { [s EXCEPT ![1] = 0] : s \in full \ {<<>>} }
            \cup { [s EXCEPT ![Len(s)] = 0] : s \in full \ {<<>>} }

\* Shapes of the inputs of Where: below the full rank, an empty axis only
\* in one dimension.
WhereShapes ==
    {s \in TensorShapes :
        Len(s) < TensorRank /\ (Len(s) = 1 \/ \A i \in DOMAIN s : s[i] > 0)}

\* Both operands are owned tensors or, for the functions that have an
\* in-place variant, both are stepped views.
LayoutPairs(fn) ==
    IF HasInPlaceFn(fn)
    THEN { <<l, l>> : l \in {"contiguous", "stepped"} }
    ELSE { <<"contiguous", "contiguous">> }

\* Elements of the first operand: negative, zero and positive values.
AElts(n) == [k \in 1..n |-> 25 * (((k - 1) % 8) - 2)]

\* f32 elements of the input of Clip: both infinities between finite
\* values.
FloatElts(n) ==
    [k \in 1..n |-> CASE k % 4 = 1 -> -Infinity
                     [] k % 4 = 3 -> Infinity
                     [] OTHER -> AElts(n)[k]]

\* Elements of the second operand: of both signs, the first one zero when
\* `zero` is set and otherwise none.
BElts(n, zero) ==
    [k \in 1..n |-> IF zero /\ k = 1 THEN 0
                    ELSE IF k % 2 = 1 THEN k + 1 ELSE -(k + 1)]

MakeTensor(shape, layout, elts) ==
    IF layout = "stepped" /\ shape # <<>>
    THEN stepped_view(shape, elts)
    ELSE from_data(shape, elts)

InitOps ==
    /\ \/ \E fn \in BinaryFns, sa \in TensorShapes, sb \in TensorShapes :
            \E layouts \in LayoutPairs(fn),
               zero \in IF /\ fn.dtype = "i32"
                           /\ fn.name \in {"div", "mod_floor", "mod_trunc"}
                        THEN BOOLEAN ELSE {FALSE} :
                call = [fn |-> fn,
                        a |-> MakeTensor(sa, layouts[1], AElts(Product(sa))),
                        b |-> MakeTensor(sb, layouts[2],
                                         BElts(Product(sb), zero)),
                        cond |-> NoTensor, min |-> None, max |-> None]
       \/ \E fn \in UnaryFns, sa \in TensorShapes :
            \E layout \in {"contiguous", "stepped"},
               min \in {None, Some(-30), Some(60)}, max \in {None, Some(40)} :
                call = [fn |-> fn,
                        a |-> MakeTensor(sa, layout,
                                         IF fn.dtype = "f32"
                                         THEN FloatElts(Product(sa))
                                         ELSE AElts(Product(sa))),
                        b |-> NoTensor, cond |-> NoTensor,
                        min |-> IF fn.name = "clip" THEN min ELSE None,
                        max |-> IF fn.name = "clip" THEN max ELSE None]
       \/ \E sc \in WhereShapes, sx \in WhereShapes, sy \in WhereShapes :
            \E layout \in {"contiguous", "stepped"} :
                call = [fn |-> Closure("where", "i32"),
                        a |-> MakeTensor(sx, layout, AElts(Product(sx))),
                        b |-> MakeTensor(sy, layout,
                                         BElts(Product(sy), FALSE)),
                        cond |-> MakeTensor(sc, layout,
                                            [k \in 1..Product(sc) |->
                                                IF k % 3 = 1 THEN 1 ELSE 0]),
                        min |-> None, max |-> None]
    /\ run_result = NoResult("NotCalled")
    /\ inplace = NoResult("NotCalled")
    /\ op_inplace = NoResult("NotCalled")
    /\ IdlePack
    /\ IdleShapes
    /\ IdleResize
    /\ IdleMod
    /\ IdleBuilder

\* Operator::run
CallRun ==
    /\ call.fn.name # "none"
    /\ run_result.tag = "NotCalled"
    /\ run_result' = Run(call)
    /\ UNCHANGED <<call, inplace, op_inplace, nonOpVars>>

\* add_in_place, sub_in_place, ... on a clone of a
CallInPlaceFn ==
    /\ HasInPlaceFn(call.fn)
    /\ run_result.tag # "NotCalled"
    /\ inplace.tag = "NotCalled"
    /\ op_inplace.tag = "NotCalled"
    /\ inplace' = InPlaceFn(call)
    /\ UNCHANGED <<call, run_result, op_inplace, nonOpVars>>

\* Operator::run_in_place on a clone of a
CallRunInPlace ==
    /\ HasInPlaceFn(call.fn) \/ call.fn.name = "abs"
    /\ run_result.tag # "NotCalled"
    /\ inplace.tag = "NotCalled"
    /\ op_inplace.tag = "NotCalled"
    /\ op_inplace' = RunInPlace(call)
    /\ UNCHANGED <<call, run_result, inplace, nonOpVars>>

NextOps ==
    \/ CallRun
    \/ CallInPlaceFn
    \/ CallRunInPlace

SpecOps == InitOps /\ [][NextOps]_vars

(***************************************************************************)
(* Specification of Resize: resize is called with a target, then           *)
(* Resize::run with a list of inputs.  The integer scales up to LargeScale *)
(* are applied to single rows and single columns.                          *)
(***************************************************************************)
\* The element at row-major position i of an image tensor is i.
Image(shape) == from_data(shape, [i \in 1..Product(shape) |-> i])

\* NCHW inputs with images of up to MaxImage rows and columns, and inputs
\* of other ranks.
ResizeInputs ==
    { Image(<<nc[1], nc[2], h, w>>) :
        nc \in {<<1, 1>>, <<2, 1>>, <<1, 2>>}, h \in 0..MaxImage,
        w \in 0..MaxImage }
    \cup { Image(<<0, 1, 1, 1>>), Image(<<1, 2, 2>>), Image(<<2, 2>>) }

\* Scale factors are kept doubled: <<2, 2, 3, 4>> scales H by 1.5 and W by 2.
SmallScales ==
    { from_data(<<4>>, <<2, 2, sh, sw>>) : sh \in 0..4, sw \in 0..4 }
    \cup { from_data(<<4>>, <<4, 2, 2, 2>>), from_data(<<4>>, <<2, 1, 4, 4>>),
           from_data(<<4>>, <<4, 2, -1, 2>>), from_data(<<4>>, <<2, 2, -1, 2>>),
           from_data(<<3>>, <<2, 2, 2>>), from_data(<<5>>, <<2, 2, 2, 2, 2>>),
           from_data(<<2, 2>>, <<2, 2, 2, 2>>), from_data(<<0>>, <<>>) }

\* scales (1, 1, k, k) for the integers k up to LargeScale
UniformScales ==
    { from_data(<<4>>, <<2, 2, 2 * k, 2 * k>>) : k \in 1..LargeScale }

TargetSizes ==
    { from_data(<<4>>, <<1, 1, h, w>>) : h \in 0..3, w \in 0..3 }
    \cup { from_data(<<4>>, <<2, 1, 2, 2>>), from_data(<<4>>, <<1, 2, 0, 2>>),
           from_data(<<4>>, <<2, 1, -1, 1>>), from_data(<<4>>, <<1, 1, -1, 1>>),
           from_data(<<2>>, <<2, 2>>), from_data(<<1, 4>>, <<1, 1, 2, 2>>),
           from_data(<<0>>, <<>>) }

ResizeModes ==
    [mode : {"Nearest"}, coord_mode : {"HalfPixel", "Asymmetric"},
     nearest_mode : {"Ceil", "Floor", "RoundPreferCeil", "RoundPreferFloor"}]
    \cup [mode : {"Linear"}, coord_mode : {"HalfPixel", "Asymmetric"},
          nearest_mode : {"RoundPreferFloor"}]

\* What the caller of Resize::run may put at the index of an optional
\* input: nothing, an empty tensor, or a tensor of either element type.
OptionalInputs(tensors) ==
    {None, Input("f32", from_data(<<0>>, <<>>)),
     Input("i32", from_data(<<0>>, <<>>))}
    \cup { Input(dtype, t) : dtype \in {"f32", "i32"}, t \in tensors }

InitResize ==
    /\ \/ \E input \in ResizeInputs, modes \in ResizeModes :
            \/ \E t \in SmallScales :
                 resize_call = ResizeCall(Input("f32", input), None,
                                          Input("f32", t), None,
                                          [kind |-> "Scales", t |-> t], modes)
            \/ \E t \in TargetSizes :
                 resize_call = ResizeCall(Input("f32", input), None, None,
                                          Input("i32", t),
                                          [kind |-> "Sizes", t |-> t], modes)
       \/ \E n \in 1..MaxImage, t \in UniformScales :
            \E shape \in {<<1, 1, n, 1>>, <<1, 1, 1, n>>} :
              resize_call =
                ResizeCall(Input("f32", Image(shape)), None,
                           None, None, [kind |-> "Scales", t |-> t],
                           [mode |-> "Nearest", coord_mode |-> "Asymmetric",
                            nearest_mode |-> "Floor"])
       \/ \E input \in {None, Input("f32", Image(<<1, 1, 2, 2>>)),
                        Input("i32", Image(<<1, 1, 2, 2>>))},
             roi \in OptionalInputs({from_data(<<2>>, <<0, 1>>)}),
             scales \in OptionalInputs({from_data(<<4>>, <<2, 2, 4, 4>>)}),
             sizes \in OptionalInputs({from_data(<<4>>, <<1, 1, 3, 1>>)}),
             mode \in {"Nearest", "Linear"} :
            resize_call =
                ResizeCall(input, roi, scales, sizes,
                           [kind |-> "none", t |-> NoTensor],
                           [mode |-> mode, coord_mode |-> "HalfPixel",
                            nearest_mode |-> "RoundPreferFloor"])
    /\ resize_result = ResizeResult("NotCalled", "", NoTensor, 0)
    /\ resize_run = ResizeResult("NotCalled", "", NoTensor, 0)
    /\ IdlePack
    /\ IdleShapes
    /\ IdleOps
    /\ IdleMod
    /\ IdleBuilder

\* resize(input, target, mode, coord_mode, nearest_mode)
CallResize ==
    /\ resize_call.target.kind # "none"
    /\ resize_result.tag = "NotCalled"
    /\ resize_result' = resize(resize_call.input.val, resize_call.target,
                               resize_call.mode, resize_call.coord_mode,
                               resize_call.nearest_mode)
    /\ UNCHANGED <<resize_call, resize_run, nonResizeVars>>

\* Resize::run(inputs)
CallResizeRun ==
    /\ resize_call.target.kind = "none" \/ resize_result.tag # "NotCalled"
    /\ resize_run.tag = "NotCalled"
    /\ resize_run' = ResizeRun(resize_call)
    /\ UNCHANGED <<resize_call, resize_result, nonResizeVars>>

NextResize ==
    \/ CallResize
    \/ CallResizeRun

SpecResize == InitResize /\ [][NextResize]_vars

(***************************************************************************)
(* Specification of Concat, Slice and Add of ops/mod.rs: one call of       *)
(* concat followed by the two slices that undo it, one call of slice       *)
(* followed by slice_in_place on a clone of the input, or one call of add  *)
(* followed by the call with the arguments exchanged.  starts, ends and    *)
(* axes are 1-dimensional tensors, given by their elements.                *)
(***************************************************************************)
ModShapes == UNION { [1..n -> 0..ModSize] : n \in 0..ModRank }

\* The tensor whose element at row-major position i is base + i.
Numbered(shape, base) ==
    from_data(shape, [i \in 1..Product(shape) |-> base + i])

\* Inputs of slice: an axis of ModSize + 1 elements, alone, first and last,
\* and an empty tensor.
SliceInputs ==
    { <<ModSize + 1>>, <<ModSize, ModSize + 1>>, <<ModSize + 1, ModSize>>,
      <<0, ModSize>> }

\* One start and one end, each from below -size to above size, with no axes
\* input or one axis (which may be out of range); or two starts and ends
\* with no axes input or two axes.
SliceArgs ==
    [starts : [1..1 -> -(ModSize + 2)..(ModSize + 2)],
     ends : [1..1 -> -(ModSize + 2)..(ModSize + 2)],
     axes : {None} \cup { Some(<<d>>) : d \in -1..2 }]
    \cup [starts : [1..2 -> {0, 1}],
          ends : [1..2 -> {1, ModSize}],
          axes : {None} \cup { Some(ax) : ax \in [1..2 -> 0..1] }
                        \cup { Some(<<0>>) }]
    \cup [starts : {<<>>, <<1>>}, ends : {<<>>, <<ModSize, 1>>},
          axes : {None}]

InitMod ==
    /\ \/ \E a \in ModShapes, b \in ModShapes, dim \in 0..ModRank :
            mod_call = [fn |-> "concat", a |-> Numbered(a, 0),
                        b |-> Numbered(b, 100), dim |-> dim]
       \/ \E input \in SliceInputs, sl \in SliceArgs :
            mod_call = [fn |-> "slice", input |-> Numbered(input, 0),
                        starts |-> sl.starts, ends |-> sl.ends,
                        axes |-> sl.axes]
       \/ \E a \in ModShapes, b \in ModShapes :
            mod_call = [fn |-> "add", a |-> Numbered(a, 0),
                        b |-> Numbered(b, 100)]
    /\ mod_result = NotCalled
    /\ mod_second = NotCalled
    /\ IdlePack
    /\ IdleShapes
    /\ IdleOps
    /\ IdleResize
    /\ IdleBuilder

CallConcat ==
    /\ mod_call.fn = "concat"
    /\ mod_result = NotCalled
    /\ mod_result' = concat(mod_call.a, mod_call.b, mod_call.dim)
    /\ UNCHANGED <<mod_call, mod_second, nonModVars>>

\* slice(c, [0], [n], [dim]) and slice(c, [n], [n + m], [dim]) on the
\* result c of concat, n and m being the sizes of a and b on axis dim
SliceConcat ==
    /\ mod_call.fn = "concat"
    /\ mod_result.tag = "Some"
    /\ mod_second = NotCalled
    /\ LET n == mod_call.a.shape[mod_call.dim + 1]
           m == mod_call.b.shape[mod_call.dim + 1]
       IN mod_second' =
            Some(<<slice(mod_result.val, <<0>>, <<n>>, Some(<<mod_call.dim>>)),
                   slice(mod_result.val, <<n>>, <<n + m>>,
                         Some(<<mod_call.dim>>))>>)
    /\ UNCHANGED <<mod_call, mod_result, nonModVars>>

CallSlice ==
    /\ mod_call.fn = "slice"
    /\ mod_result = NotCalled
    /\ mod_result' = slice(mod_call.input, mod_call.starts, mod_call.ends,
                           mod_call.axes)
    /\ UNCHANGED <<mod_call, mod_second, nonModVars>>

CallSliceInPlace ==
    /\ mod_call.fn = "slice"
    /\ mod_result # NotCalled
    /\ mod_second = NotCalled
    /\ mod_second' = slice_in_place(mod_call.input, mod_call.starts,
                                    mod_call.ends, mod_call.axes)
    /\ UNCHANGED <<mod_call, mod_result, nonModVars>>

CallAdd ==
    /\ mod_call.fn = "add"
    /\ mod_result = NotCalled
    /\ mod_result' = mod_add(mod_call.a, mod_call.b)
    /\ UNCHANGED <<mod_call, mod_second, nonModVars>>

CallAddSwapped ==
    /\ mod_call.fn = "add"
    /\ mod_result # NotCalled
    /\ mod_second = NotCalled
    /\ mod_second' = mod_add(mod_call.b, mod_call.a)
    /\ UNCHANGED <<mod_call, mod_result, nonModVars>>

NextMod ==
    \/ CallConcat
    \/ SliceConcat
    \/ CallSlice
    \/ CallSliceInPlace
    \/ CallAdd
    \/ CallAddSwapped

SpecMod == InitMod /\ [][NextMod]_vars

(***************************************************************************)
(* Specification of a ModelBuilder: any sequence of up to MaxNodes calls   *)
(* of add_value, add_float_constant, add_int_constant and add_operator,    *)
(* then finish(), which consumes the builder.  `ids` records each call and *)
(* the node id it returned.                                                *)
(***************************************************************************)
InitBuilder ==
    /\ nodes = <<>>
    /\ ids = <<>>
    /\ model = NotCalled
    /\ IdlePack
    /\ IdleShapes
    /\ IdleOps
    /\ IdleResize
    /\ IdleMod

\* Node ids an operator may name as inputs or outputs: none, the node added
\* last, or the first node and the node added last.
NodeIdLists ==
    {<<>>} \cup (IF nodes = <<>> THEN {}
                 ELSE {<<Len(nodes) - 1>>, <<0, Len(nodes) - 1>>})

AddValue ==
    /\ model = NotCalled
    /\ Len(nodes) < MaxNodes
    /\ \E id \in {"x", "y"} :
          LET r == add_value(nodes, id)
          IN /\ nodes' = r.nodes
             /\ ids' = Append(ids, [call |-> "add_value", id |-> r.id])
    /\ UNCHANGED <<model, nonBuilderVars>>

AddFloatConstant ==
    /\ model = NotCalled
    /\ Len(nodes) < MaxNodes
    /\ \E shape \in {<<>>, <<2>>} :
          LET r == add_float_constant(nodes, Numbered(shape, 0))
          IN /\ nodes' = r.nodes
             /\ ids' = Append(ids, [call |-> "add_float_constant",
                                    id |-> r.id])
    /\ UNCHANGED <<model, nonBuilderVars>>

AddIntConstant ==
    /\ model = NotCalled
    /\ Len(nodes) < MaxNodes
    /\ \E shape \in {<<1, 2>>} :
          LET r == add_int_constant(nodes, Numbered(shape, 0))
          IN /\ nodes' = r.nodes
             /\ ids' = Append(ids, [call |-> "add_int_constant",
                                    id |-> r.id])
    /\ UNCHANGED <<model, nonBuilderVars>>

AddOperator ==
    /\ model = NotCalled
    /\ Len(nodes) < MaxNodes
    /\ \E op_info \in {"Add", "Relu"}, inputs \in NodeIdLists :
          LET r == add_operator(nodes, "op", op_info, inputs, <<>>)
          IN /\ nodes' = r.nodes
             /\ ids' = Append(ids, [call |-> "add_operator", id |-> r.id])
    /\ UNCHANGED <<model, nonBuilderVars>>

Finish ==
    /\ model = NotCalled
    /\ model' = finish(nodes)
    /\ UNCHANGED <<nodes, ids, nonBuilderVars>>

NextBuilder ==
    \/ AddValue
    \/ AddFloatConstant
    \/ AddIntConstant
    \/ AddOperator
    \/ Finish

SpecBuilder == InitBuilder /\ [][NextBuilder]_vars

(***************************************************************************)
(* Claims about the packing routines (checked under SpecPack)              *)
(***************************************************************************)
CeilDiv(x, n) == (x + n - 1) \div n

\* Number of packed cells: n_panels * MR * cols.len() for A,
\* n_panels * rows.len() * NR for B.
PackedLen ==
    IF args.kind = "a"
    THEN CeilDiv(RangeLen(args.rows), args.tile) * args.tile * RangeLen(args.cols)
    ELSE CeilDiv(RangeLen(args.cols), args.tile) * RangeLen(args.rows) * args.tile

\* Values held by the source matrix inside the packed ranges.
SourceValues ==
    { MatrixAt(args.m, r, c) :
        r \in args.rows.start..(args.rows.end - 1),
        c \in args.cols.start..(args.cols.end - 1) }

\* C1: whenever pack_a_block or pack_b_block returns, every element of out
\* has been written with a value of the source matrix or with 0, and every
\* element of the spare capacity beyond the packed cells is 0.
C1_OutFullyInitialized ==
    pc = "returned" =>
        /\ \A i \in 1..Len(out) :
              out[i] # Uninit /\ (out[i] = 0 \/ out[i] \in SourceValues)
        /\ \A i \in 1..Len(out) : i - 1 >= PackedLen => out[i] = 0

\* A call that returned with spare capacity, several panels and a padded
\* final panel.
C1_Witness ==
    /\ pc = "returned"
    /\ Len(out) > PackedLen
    /\ PackedLen > 0
    /\ panel >= 2
    /\ (IF args.kind = "a" THEN RangeLen(args.rows) ELSE RangeLen(args.cols))
          % args.tile # 0

\* C2: pack_a_block writes ceil(rows.len() / MR) panels of MR * cols.len()
\* cells, column-major inside a panel: cell (p, c, r) holds
\* a[rows.start + p*MR + r, cols.start + c] for rows inside the range and 0
\* for the padding rows, whichever loop packed the panel.
C2_PackALayout ==
    (pc = "returned" /\ args.kind = "a") =>
        /\ panel = CeilDiv(RangeLen(args.rows), args.tile)
        /\ \A p \in 0..(CeilDiv(RangeLen(args.rows), args.tile) - 1) :
           \A c \in 0..(RangeLen(args.cols) - 1) :
           \A r \in 0..(args.tile - 1) :
              out[p * RangeLen(args.cols) * args.tile + c * args.tile + r + 1]
                = IF args.rows.start + p * args.tile + r < args.rows.end
                  THEN MatrixAt(args.m, args.rows.start + p * args.tile + r,
                                args.cols.start + c)
                  ELSE 0

\* pack_a_block returned after a full panel and a padded panel of a block
\* with several columns.
C2_Witness ==
    /\ pc = "returned" /\ args.kind = "a"
    /\ panel >= 2
    /\ RangeLen(args.cols) >= 2
    /\ RangeLen(args.rows) % args.tile # 0
    /\ args.tile >= 2

\* C3: pack_b_block writes ceil(cols.len() / NR) panels of rows.len() * NR
\* cells, row-major inside a panel: cell (p, r, c) holds
\* b[rows.start + r, cols.start + p*NR + c] for columns inside the range and
\* 0 for the padding columns, whichever loop packed the panel.
C3_PackBLayout ==
    (pc = "returned" /\ args.kind = "b") =>
        /\ panel = CeilDiv(RangeLen(args.cols), args.tile)
        /\ \A p \in 0..(CeilDiv(RangeLen(args.cols), args.tile) - 1) :
           \A r \in 0..(RangeLen(args.rows) - 1) :
           \A c \in 0..(args.tile - 1) :
              out[p * RangeLen(args.rows) * args.tile + r * args.tile + c + 1]
                = IF p * args.tile + c < RangeLen(args.cols)
                  THEN MatrixAt(args.m, args.rows.start + r,
                                args.cols.start + p * args.tile + c)
                  ELSE 0

\* pack_b_block returned after a full panel packed by the strided loop and a
\* padded panel of a block with several rows.
C3_Witness ==
    /\ pc = "returned" /\ args.kind = "b"
    /\ panel >= 2
    /\ RangeLen(args.rows) >= 2
    /\ RangeLen(args.cols) % args.tile # 0
    /\ args.tile >= 2
    /\ args.m.col_stride # 1

\* The ranges lie inside the matrix and the storage holds every in-bounds
\* element offset.
RangesInside ==
    /\ args.rows.start <= args.rows.end /\ args.rows.end <= args.m.rows
    /\ args.cols.start <= args.cols.end /\ args.cols.end <= args.m.cols
    /\ \A r \in 0..(args.m.rows - 1) : \A c \in 0..(args.m.cols - 1) :
          r * args.m.row_stride + c * args.m.col_stride < StorageLen(args.m)

\* C4: for ranges inside the matrix no read of the source storage and no
\* unchecked write into out leaves its slice, and the padding positions are
\* filled with 0 without reading the source beyond rows.end / cols.end.
C4_NoOutOfBoundsAccess ==
    RangesInside =>
        /\ ~oob.read
        /\ ~oob.write
        /\ ~oob.pad_read

\* A block with fewer rows (columns) than the tile, lying at the far edge of
\* the matrix, has been packed by the padded fallback loop.
C4_Witness ==
    /\ pc = "returned"
    /\ panel = 1
    /\ IF args.kind = "a"
       THEN /\ RangeLen(args.rows) < args.tile
            /\ args.rows.end = args.m.rows
            /\ RangeLen(args.cols) > 0
       ELSE /\ RangeLen(args.cols) < args.tile
            /\ args.cols.end = args.m.cols
            /\ RangeLen(args.rows) > 0
    /\ \E i \in 1..PackedLen : out[i] = 0
    /\ \E i \in 1..PackedLen : out[i] > 0

(***************************************************************************)
(* Claims about the shape functions (checked under SpecShapes)             *)
(***************************************************************************)
\* s left-padded with 1s to n dimensions.
PadLeft(s, n) == Ones(n - Len(s)) \o s

MaxLen(a, b) == Max(Len(a), Len(b))

\* Every right-aligned pair of sizes is equal or contains a 1.
Compatible(a, b) ==
    \A i \in 1..MaxLen(a, b) :
        \/ PadLeft(a, MaxLen(a, b))[i] = PadLeft(b, MaxLen(a, b))[i]
        \/ PadLeft(a, MaxLen(a, b))[i] = 1
        \/ PadLeft(b, MaxLen(a, b))[i] = 1

PairwiseMax(a, b) ==
    [i \in 1..MaxLen(a, b) |->
        Max(PadLeft(a, MaxLen(a, b))[i], PadLeft(b, MaxLen(a, b))[i])]

\* The maximum of each pair, except that a pair holding a 0 gives 0.
PairwiseBroadcast(a, b) ==
    [i \in 1..MaxLen(a, b) |->
        IF PadLeft(a, MaxLen(a, b))[i] = 0 \/ PadLeft(b, MaxLen(a, b))[i] = 0
        THEN 0
        ELSE Max(PadLeft(a, MaxLen(a, b))[i], PadLeft(b, MaxLen(a, b))[i])]

C6_BroadcastShapesSymmetric ==
    (bs_ab # NotCalled /\ bs_ba # NotCalled) => bs_ab = bs_ba

\* Both orders were evaluated on two different shapes that broadcast to a
\* third one.
C6_Witness ==
    /\ bs_ab.tag = "Some" /\ bs_ba.tag = "Some"
    /\ bs_ab.val # shapes.a
    /\ bs_ab.val # shapes.b

\* from can be broadcast to `to` (Layout::can_broadcast_to).
Broadcastable(from, to) ==
    /\ Len(from) <= Len(to)
    /\ \A i \in 1..Len(to) :
          PadLeft(from, Len(to))[i] = to[i] \/ PadLeft(from, Len(to))[i] = 1

\* Axes of `to` on which `from` must be broadcast.
BcastAxes(from, to) ==
    { i \in 1..Len(to) : PadLeft(from, Len(to))[i] # to[i] }

\* Axes on which the left-padded from-shape is not 1.
NonUnitAxes(from, to) ==
    { i \in 1..Len(to) : PadLeft(from, Len(to))[i] # 1 }

\* Some broadcast axis lies between two non-unit axes of the from-shape.
Sandwiched(from, to) ==
    \E i \in BcastAxes(from, to) :
        /\ \E j \in NonUnitAxes(from, to) : j < i
        /\ \E k \in NonUnitAxes(from, to) : k > i

InPlacePermitted ==
    \/ call.fn \in UnaryFns
    \/ /\ call.fn.dtype = "i32"
       /\ call.fn.name \in {"add", "sub", "mul", "div"}
       /\ Broadcastable(call.b.shape, call.a.shape)

SameTensor(r, s) ==
    /\ r.tag \in {"Ok", "Panic"}
    /\ s.tag = r.tag
    /\ r.val.shape = s.val.shape
    /\ Elements(r.val) = Elements(s.val)

\* C8: on every input on which in-place execution is permitted, the tensor
\* left by the *_in_place function and the tensor returned by
\* Operator::run_in_place have the same shape and the same elements as the
\* tensor the copying function returns for the same inputs; where the
\* copying function panics on a zero divisor, so do they.
C8_InPlaceMatchesCopy ==
    InPlacePermitted =>
        /\ inplace.tag # "NotCalled" => SameTensor(inplace, run_result)
        /\ op_inplace.tag # "NotCalled" => SameTensor(op_inplace, run_result)

\* An integer division ran in place on a stepped view through the general
\* path, with a b of several elements that had to be broadcast.
C8_Witness ==
    /\ call.fn = Closure("div", "i32")
    /\ inplace.tag = "Ok"
    /\ inplace.path = "fallback"
    /\ ~is_contiguous(call.a)
    /\ Broadcastable(call.b.shape, call.a.shape)
    /\ Product(call.b.shape) > 1
    /\ Product(call.a.shape) > Product(call.b.shape)

\* What the claim says about one tensor r produced by a fast path that was
\* entered with operands a and b and closure op.
FastPathLaw(r, general) ==
    LET a == r.lhs
        b == r.rhs
        op == r.op
        params == fast_broadcast_cycles_repeats(b.shape, a.shape)
        repeats == params.val[2]
        b_bcast == broadcast_iter(b, a.shape)
        elts == Elements(r.val)
    IN /\ params.tag = "Some"
       /\ Len(elts) = Product(a.shape)
       /\ \A i \in 0..(Product(a.shape) - 1) :
            /\ elts[i + 1] =
                 ElemOp(op, a.data[i + 1],
                        b.data[((i \div repeats) % Product(b.shape)) + 1])
            /\ b.data[((i \div repeats) % Product(b.shape)) + 1] = b_bcast[i + 1]
       /\ general.tag = "Ok"
       /\ general.val = r.val

\* C9: a tensor produced by the fast path of binary_op or of
\* binary_op_in_place (b broadcastable to a's shape) has at row-major
\* position i the value op(a[i], b_data[(i div repeats) mod b.len()]), this
\* b element is the one broadcasting b to a's shape places at i, and the
\* broadcast_iter path gives the identical tensor for the same operands.
C9_FastPathIsBroadcast ==
    /\ run_result.path = "fast" =>
         FastPathLaw(run_result,
                     BinaryOpFallback(run_result.lhs, run_result.rhs,
                                      run_result.op,
                                      run_result.lhs.shape))
    /\ \A r \in {inplace, op_inplace} :
         (/\ r.path = "fast"
          /\ Broadcastable(r.rhs.shape, r.lhs.shape)) =>
            FastPathLaw(r, InPlaceFallback(r.lhs, r.rhs, r.op))

\* A subtraction took the fast path with b cycled more than once and each
\* of its several elements repeated more than once.
C9_Witness ==
    /\ call.fn = Closure("sub", "i32")
    /\ run_result.path = "fast"
    /\ Product(call.b.shape) > 1
    /\ fast_broadcast_cycles_repeats(call.b.shape, call.a.shape).val[1] > 1
    /\ fast_broadcast_cycles_repeats(call.b.shape, call.a.shape).val[2] > 1

\* C10: for broadcast-compatible inputs every binary function returns a
\* tensor whose shape is broadcast_shapes(a.shape, b.shape).
C10_OutputShapeIsBroadcastShape ==
    (/\ call.fn \in BinaryFns
     /\ run_result.tag # "NotCalled"
     /\ Compatible(call.a.shape, call.b.shape)) =>
        /\ run_result.tag = "Ok"
        /\ Some(run_result.val.shape) =
             broadcast_shapes(call.a.shape, call.b.shape)

\* pow took its single-exponent shortcut with an exponent of more
\* dimensions than the base: the result keeps the shape of the base.
C10_Witness ==
    /\ call.fn = Closure("pow", "f32")
    /\ call.a.shape = <<2>>
    /\ call.b.shape = <<1, 1>>
    /\ run_result.tag = "Ok"
    /\ run_result.val.shape = <<2>>
    /\ broadcast_shapes(call.a.shape, call.b.shape) = Some(<<1, 2>>)

\* The operators the claim names: each hands its closure straight to
\* binary_op, or is where_op.
ShapeCheckedFns ==
    {"add", "sub", "mul", "mod_floor", "mod_trunc", "equal", "less",
     "less_or_equal", "greater", "greater_or_equal", "and", "or", "xor",
     "where"}

\* The input shapes of the call are broadcast-compatible: a with b, and for
\* Where also the condition with the broadcast of x and y.
InputsCompatible ==
    /\ Compatible(call.a.shape, call.b.shape)
    /\ call.fn.name = "where" =>
          Compatible(call.cond.shape,
                     PairwiseBroadcast(call.a.shape, call.b.shape))

\* An integer remainder meets a zero divisor: b holds a zero and the output
\* is not empty.
ZeroDivisorMet ==
    /\ call.fn.name \in {"mod_floor", "mod_trunc"}
    /\ \E k \in DOMAIN Elements(call.b) : Elements(call.b)[k] = 0
    /\ Product(PairwiseBroadcast(call.a.shape, call.b.shape)) > 0

C12_RunInPlaceIffBroadcastable ==
    (/\ call.fn.name \in {"add", "sub", "mul", "div", "pow"}
     /\ op_inplace.tag # "NotCalled"
     /\ Compatible(call.a.shape, call.b.shape)) =>
        IF op_inplace.tag = "Panic"
        THEN /\ call.fn = Closure("div", "i32")
             /\ \E k \in DOMAIN Elements(call.b) : Elements(call.b)[k] = 0
        ELSE IF Broadcastable(call.b.shape, call.a.shape)
        THEN /\ op_inplace = InPlaceFn(call)
             /\ op_inplace.tag = "Ok"
             /\ op_inplace.val.shape = call.a.shape
             /\ op_inplace.val.strides = call.a.strides
             /\ Len(op_inplace.val.data) = Len(call.a.data)
        ELSE /\ op_inplace = Run(call)
             /\ op_inplace.tag = "Ok"
             /\ is_contiguous(op_inplace.val)
             /\ op_inplace.val.shape =
                  PairwiseBroadcast(call.a.shape, call.b.shape)

\* Pow::run_in_place fell back to pow, which took its single-exponent
\* shortcut: the result keeps the shape of the base instead of the
\* broadcast shape.
C12_Witness ==
    /\ call.fn = Closure("pow", "f32")
    /\ call.a.shape = <<2>>
    /\ call.b.shape = <<1, 1>>
    /\ ~can_run_binary_op_in_place(call.a, call.b)
    /\ op_inplace.tag = "Ok"
    /\ op_inplace.val.shape = <<2>>
    /\ PairwiseBroadcast(call.a.shape, call.b.shape) = <<1, 2>>

Abs(x) == IF x < 0 THEN -x ELSE x

\* r is a remainder of x by y whose sign, unless r is zero, is that of s.
RemainderWithSignOf(r, x, y, s) ==
    /\ (x - r) % Abs(y) = 0
    /\ Abs(r) < Abs(y)
    /\ r = 0 \/ (r < 0) = (s < 0)

\* C13: every element r of mod_op on i32 tensors, computed from the
\* elements x and y (y # 0) at its position, has x - r divisible by y and
\* |r| < |y|; unless r = 0 its sign is that of y with fmod = false (FloorDiv)
\* and that of x with fmod = true (TruncDiv).
C13_ModSign ==
    \A fmod \in BOOLEAN :
        (call.fn = Mod(fmod) /\ run_result.tag = "Ok") =>
            LET shape == run_result.val.shape
                xs == broadcast_iter(call.a, shape)
                ys == broadcast_iter(call.b, shape)
                rs == Elements(run_result.val)
            IN /\ Len(rs) = Product(shape)
               /\ \A k \in 1..Len(rs) :
                     /\ ys[k] # 0
                     /\ RemainderWithSignOf(rs[k], xs[k], ys[k],
                                            IF fmod THEN xs[k] ELSE ys[k])

\* A flooring Mod of a negative dividend by a positive divisor that does
\* not divide it: the remainder is positive.
C13_Witness ==
    /\ call.fn = Mod(FALSE)
    /\ run_result.tag = "Ok"
    /\ \E k \in 1..Product(run_result.val.shape) :
         /\ broadcast_iter(call.a, run_result.val.shape)[k] < 0
         /\ broadcast_iter(call.b, run_result.val.shape)[k] > 0
         /\ Elements(run_result.val)[k] > 0

\* q is the quotient of x by y (y # 0) truncated toward zero.
TruncatedQuotient(q, x, y) ==
    /\ Abs(q) * Abs(y) <= Abs(x)
    /\ Abs(x) < (Abs(q) + 1) * Abs(y)
    /\ q = 0 \/ (q < 0) = ((x < 0) # (y < 0))

\* What the claim says about the result r of an integer division that
\* pairs the elements xs with the elements ys.
IntDivLaw(r, xs, ys) ==
    IF \E k \in 1..Len(ys) : ys[k] = 0
    THEN r.tag = "Panic"
    ELSE LET qs == Elements(r.val)
         IN /\ r.tag = "Ok"
            /\ r.op = Closure("div", "i32")
            /\ Len(qs) = Len(xs)
            /\ \A k \in 1..Len(xs) : TruncatedQuotient(qs[k], xs[k], ys[k])

ClippedTo(r, lo, hi) ==
    /\ r.tag = "Ok"
    /\ r.val.shape = call.a.shape
    /\ LET xs == Elements(call.a)
           es == Elements(r.val)
       IN /\ Len(es) = Len(xs)
          /\ \A k \in 1..Len(xs) :
                LET raised == IF xs[k] > lo THEN xs[k] ELSE lo
                IN /\ es[k] = IF raised < hi THEN raised ELSE hi
                   /\ lo <= hi => (lo <= es[k] /\ es[k] <= hi)

\* The results of the Clip entry points that were called.
ClipResults ==
    {r \in {run_result, inplace, op_inplace} :
        call.fn.name = "clip" /\ r.tag # "NotCalled"}

\* C20 (as stated): clip and clip_in_place replace every element x by
\* min(max(x, lo), hi), lo and hi being the given bounds or else the
\* minimum and maximum finite value of the type; so without bounds the
\* tensor is unchanged, and with lo <= hi every element lies in [lo, hi].
C20_Original ==
    \A r \in ClipResults :
        /\ ClippedTo(r,
                     IF call.min.tag = "Some" THEN call.min.val
                     ELSE IF call.fn.dtype = "f32" THEN -F32Max ELSE I32Min,
                     IF call.max.tag = "Some" THEN call.max.val
                     ELSE IF call.fn.dtype = "f32" THEN F32Max ELSE I32Max)
        /\ (call.min = None /\ call.max = None) =>
              Elements(r.val) = Elements(call.a)

\* C20: as stated, except that without bounds only the finite elements are
\* unchanged: an infinite f32 element becomes f32::MAX or f32::MIN.
C20_Clip ==
    \A r \in ClipResults :
        /\ ClippedTo(r,
                     IF call.min.tag = "Some" THEN call.min.val
                     ELSE IF call.fn.dtype = "f32" THEN -F32Max ELSE I32Min,
                     IF call.max.tag = "Some" THEN call.max.val
                     ELSE IF call.fn.dtype = "f32" THEN F32Max ELSE I32Max)
        /\ (call.min = None /\ call.max = None) =>
              LET xs == Elements(call.a)
                  es == Elements(r.val)
              IN \A k \in 1..Len(xs) :
                    es[k] = IF xs[k] = Infinity THEN F32Max
                            ELSE IF xs[k] = -Infinity THEN -F32Max
                            ELSE xs[k]

\* clip_in_place without bounds ran over an f32 tensor that holds an
\* infinite element.
C20_Witness ==
    /\ call.fn = Closure("clip", "f32")
    /\ call.min = None
    /\ call.max = None
    /\ inplace.tag = "Ok"
    /\ \E k \in 1..Len(Elements(call.a)) : Elements(call.a)[k] = Infinity

(***************************************************************************)
(* Claims about Resize (checked under SpecResize)                          *)
(***************************************************************************)
ResizeCalled == resize_result.tag # "NotCalled"

\* The sizes resize computes for the call under test.
CalledSizes == target_sizes(resize_call.input.val, resize_call.target)

\* The target has a size for the batch or the channel dimension of an NCHW
\* input that is not the input's.
BatchOrChannelDiffers ==
    /\ Len(resize_call.input.val.shape) = 4
    /\ \E dim \in 1..2 :
         /\ dim <= Len(CalledSizes)
         /\ CalledSizes[dim] # resize_call.input.val.shape[dim]

UnsupportedResize ==
    /\ resize_result.tag = "Err"
    /\ resize_result.err
         = "UnsupportedValue: only height and width dimensions can be resized"
    /\ resize_result.val = NoTensor

\* The target is a vector with one size per dimension of the input, none of
\* them negative.
TargetWellFormed ==
    /\ Len(resize_call.target.t.shape) = 1
    /\ Len(CalledSizes) = Len(resize_call.input.val.shape)
    /\ \A i \in 1..Len(CalledSizes) : CalledSizes[i] >= 0

ValidationPasses ==
    /\ TargetWellFormed
    /\ Len(resize_call.input.val.shape) = 4
    /\ ~BatchOrChannelDiffers

\* C16: when validation passes and a size of the target is 0, resize
\* returns Ok with a tensor of exactly the target shape that has no
\* elements, and has called neither nearest_resize nor bilinear_resize.
C16_EmptyOutput ==
    (/\ ResizeCalled
     /\ ValidationPasses
     /\ \E i \in 1..Len(CalledSizes) : CalledSizes[i] = 0) =>
        /\ resize_result.tag = "Ok"
        /\ resize_result.val.shape = CalledSizes
        /\ resize_result.val.data = <<>>
        /\ resize_result.kernels = 0

\* A non-empty input was resized to a target without rows.
C16_Witness ==
    /\ ResizeCalled
    /\ ValidationPasses
    /\ Product(resize_call.input.val.shape) > 0
    /\ CalledSizes[3] = 0
    /\ CalledSizes[4] > 0
    /\ resize_result.tag = "Ok"
    /\ resize_result.kernels = 0

\* The call under test is a nearest-neighbour resize of a non-empty NCHW
\* input with scales (1, 1, k, k), Asymmetric coordinates and Floor rounding.
BlockExpansion(k) ==
    /\ resize_call.mode = "Nearest"
    /\ resize_call.coord_mode = "Asymmetric"
    /\ resize_call.nearest_mode = "Floor"
    /\ resize_call.target
         = [kind |-> "Scales", t |-> from_data(<<4>>, <<2, 2, 2 * k, 2 * k>>)]
    /\ Len(resize_call.input.val.shape) = 4
    /\ Product(resize_call.input.val.shape) > 0

\* The element at [n, c, y, x] of a contiguous NCHW tensor.
At(t, n, c, y, x) ==
    t.data[((n * t.shape[2] + c) * t.shape[3] + y) * t.shape[4] + x + 1]

\* C17: with Nearest, Asymmetric and Floor, scales (1, 1, k, k) for an
\* integer k >= 1 give an N x C x kH x kW output with
\* out[n, c, y, x] = in[n, c, y div k, x div k].
C17_BlockExpansion ==
    \A k \in 1..LargeScale :
        ResizeCalled /\ BlockExpansion(k) =>
            LET in == resize_call.input.val
                output == resize_result.val
            IN /\ resize_result.tag = "Ok"
               /\ output.shape = <<in.shape[1], in.shape[2], k * in.shape[3],
                                   k * in.shape[4]>>
               /\ \A n \in 0..(in.shape[1] - 1), c \in 0..(in.shape[2] - 1),
                     y \in 0..(k * in.shape[3] - 1),
                     x \in 0..(k * in.shape[4] - 1) :
                      At(output, n, c, y, x)
                          = At(in, n, c, y \div k, x \div k)

\* A column of two pixels was resized with scales (1, 1, 41, 41), and the
\* first pixel of the second block is a copy of the first input pixel.
C17_Witness ==
    /\ ResizeCalled
    /\ BlockExpansion(41)
    /\ resize_call.input.val.shape = <<1, 1, 2, 1>>
    /\ resize_result.tag = "Ok"
    /\ resize_result.val.shape = <<1, 1, 82, 41>>
    /\ At(resize_result.val, 0, 0, 41, 0) = At(resize_call.input.val, 0, 0, 0, 0)
    /\ At(resize_call.input.val, 0, 0, 1, 0) # At(resize_call.input.val, 0, 0, 0, 0)

\* The fractional part of the coordinate c = c[1] / 2^(c[2]) is exactly 0.5.
IsTie(c) == 2 * (c[1] % 2^c[2]) = 2^c[2]

\* The input index C18 gives for the coordinate c >= 0: floor(c) is
\* c[1] div 2^(c[2]), ceil(c) is one more unless c is an integer, and the
\* nearest integer of a c that is no tie is floor(c) or ceil(c), whichever
\* is closer.
NearestIndex(c, mode) ==
    LET floor == c[1] \div 2^c[2]
        ceil == IF c[1] % 2^c[2] = 0 THEN floor ELSE floor + 1
        nearest == IF 2 * (c[1] % 2^c[2]) < 2^c[2] THEN floor ELSE ceil
    IN CASE mode = "Ceil" -> ceil
         [] mode = "Floor" -> floor
         [] mode = "RoundPreferCeil" -> IF IsTie(c) THEN ceil ELSE nearest
         [] mode = "RoundPreferFloor" -> IF IsTie(c) THEN floor ELSE nearest

\* resize has produced a non-empty output with ResizeMode::Nearest.
NearestDone ==
    /\ ResizeCalled
    /\ resize_call.mode = "Nearest"
    /\ resize_result.tag = "Ok"
    /\ resize_result.val.data # <<>>

\* C18: nearest_resize reads, for every output pixel, the input pixel whose
\* row and column index are the clamped input coordinates converted by
\* mode: Ceil gives ceil(c), Floor gives floor(c), RoundPreferCeil gives
\* ceil(c) on a tie and the nearest integer otherwise, RoundPreferFloor
\* gives floor(c) on a tie and the nearest integer otherwise.
C18_RoundCoord ==
    NearestDone =>
        LET in == resize_call.input.val
            output == resize_result.val
            ys == InputCoords(in.shape[3], output.shape[3],
                              resize_call.coord_mode)
            xs == InputCoords(in.shape[4], output.shape[4],
                              resize_call.coord_mode)
        IN \A n \in 0..(in.shape[1] - 1), c \in 0..(in.shape[2] - 1),
              y \in 0..(output.shape[3] - 1), x \in 0..(output.shape[4] - 1) :
               At(output, n, c, y, x)
                   = At(in, n, c,
                        NearestIndex(ys[y], resize_call.nearest_mode),
                        NearestIndex(xs[x], resize_call.nearest_mode))

\* RoundPreferCeil has converted a row coordinate with fractional part 0.5.
C18_Witness ==
    /\ NearestDone
    /\ resize_call.nearest_mode = "RoundPreferCeil"
    /\ \E y \in 0..(resize_result.val.shape[3] - 1) :
         IsTie(InputCoords(resize_call.input.val.shape[3],
                           resize_result.val.shape[3],
                           resize_call.coord_mode)[y])

\* Resize::run was called with an f32 tensor as its first input.
RunCalled ==
    /\ resize_run.tag # "NotCalled"
    /\ resize_call.input.tag = "Some"
    /\ resize_call.input.dtype = "f32"

\* The optional input is a tensor with at least one element.
Present(input) == input.tag = "Some" /\ Product(input.val.shape) # 0

\* What resize returns for the target C19 selects: scales if present and
\* non-empty, else sizes if present and non-empty, else MissingInputs.
SelectedTarget ==
    IF Present(resize_call.scales)
    THEN resize(resize_call.input.val,
                [kind |-> "Scales", t |-> resize_call.scales.val],
                resize_call.mode, resize_call.coord_mode,
                resize_call.nearest_mode)
    ELSE IF Present(resize_call.sizes)
    THEN resize(resize_call.input.val,
                [kind |-> "Sizes", t |-> resize_call.sizes.val],
                resize_call.mode, resize_call.coord_mode,
                resize_call.nearest_mode)
    ELSE ResizeResult("Err", "MissingInputs", NoTensor, 0)

\* Every optional input that is given, empty or not, has the element type
\* of its index: roi and scales f32, sizes i32.
WellTyped ==
    /\ resize_call.roi.tag = "Some" => resize_call.roi.dtype = "f32"
    /\ resize_call.scales.tag = "Some" => resize_call.scales.dtype = "f32"
    /\ resize_call.sizes.tag = "Some" => resize_call.sizes.dtype = "i32"

C23_PanicsOnLongerFrom ==
    (fast # NotCalled /\ Len(shapes.a) > Len(shapes.b)) => fast = Panic

\* The function returned Some((1, 1)) for the single-element from_shape
\* [1, 1] and the shorter to_shape [1].
C23_Witness ==
    /\ shapes = [a |-> <<1, 1>>, b |-> <<1>>]
    /\ fast = Some(<<1, 1>>)

(***************************************************************************)
(* Further claims about resize (checked under SpecResize)                  *)
(***************************************************************************)
\* The error C24 assigns to the call under test, "" when no check of the
\* list is violated: the checks are taken in the order (1) to (5), on the
\* scales or sizes as they were given.
ExpectedResizeError ==
    LET in == resize_call.input.val
        t == resize_call.target.t
    IN IF Len(t.shape) # 1 THEN "InvalidValue: must have 1 dims"
       ELSE IF t.shape[1] # Len(in.shape) THEN "IncompatibleInputShapes"
       ELSE IF \E i \in 1..Len(CalledSizes) : CalledSizes[i] < 0
       THEN "InvalidValue: scales/sizes must be positive"
       ELSE IF Len(in.shape) # 4
       THEN "InvalidValue: input must have 4 dims (NCHW)"
       ELSE IF BatchOrChannelDiffers
       THEN "UnsupportedValue: only height and width dimensions can be resized"
       ELSE ""

\* C24: resize reports the earliest violated check of (1) target not
\* 1-dimensional, (2) target length different from the input rank, (3) a
\* negative size, (4) input not 4-dimensional, (5) batch or channel size
\* changed, and produces no output on any of them.
C24_ErrorPrecedence ==
    (ResizeCalled /\ ExpectedResizeError # "") =>
        /\ resize_result.tag = "Err"
        /\ resize_result.err = ExpectedResizeError
        /\ resize_result.val = NoTensor

\* Five scales were given for a 4-dimensional input and resize returned a
\* tensor.
C24_Witness ==
    /\ ResizeCalled
    /\ resize_call.target
         = [kind |-> "Scales", t |-> from_data(<<5>>, <<2, 2, 2, 2, 2>>)]
    /\ resize_call.input.val.shape = <<1, 1, 1, 1>>
    /\ resize_result.tag = "Ok"
    /\ resize_result.val.shape = <<1, 1, 1, 1>>

(***************************************************************************)
(* Further claims about the elementwise operators (checked under SpecOps)  *)
(***************************************************************************)
\* What fast_broadcast_cycles_repeats(b.shape(), a.shape()) returns for the
\* operands of the call under test.
FastParams == fast_broadcast_cycles_repeats(call.b.shape, call.a.shape)

\* binary_op and binary_op_in_place enter their fast path on the operands
\* of the call under test: both are contiguous, b can be broadcast to a's
\* shape and the cycles and repeats are Some.
FastEntered ==
    /\ call.fn \in BinaryFns
    /\ run_result.tag # "NotCalled"
    /\ is_contiguous(call.a)
    /\ is_contiguous(call.b)
    /\ can_broadcast_to(call.b.shape, call.a.shape)
    /\ FastParams.tag = "Some"

\* C25: on the fast path cycles is the product of a's sizes on the
\* leading broadcast axes and repeats the product on the trailing ones (all
\* of them trailing for a b of one element),
\* cycles * b.len() * repeats = a.len(), the loops
\* advance the counter i once for each of 0 .. a.len() - 1, so that every
\* unchecked access is in range, and neither assertion fails: a call panics
\* only in the closure, on a zero divisor.
C25_FastPathCounts ==
    FastEntered =>
        LET cycles == FastParams.val[1]
            repeats == FastParams.val[2]
            operands == FastLoopOperands(call.b.data, cycles, repeats, 0, 1, 0)
            zero_div == AnyElemPanics(call.fn, call.a.data, operands)
            trailing == { i \in BcastAxes(call.b.shape, call.a.shape) :
                            \A j \in NonUnitAxes(call.b.shape, call.a.shape) :
                                i > j }
            leading == BcastAxes(call.b.shape, call.a.shape) \ trailing
            over(axes) == Product([i \in 1..Len(call.a.shape) |->
                                      IF i \in axes THEN call.a.shape[i]
                                      ELSE 1])
        IN /\ cycles = over(leading)
           /\ repeats = over(trailing)
           /\ cycles * Len(call.b.data) * repeats = Len(call.a.data)
           /\ Len(operands) = Len(call.a.data)
           /\ \A r \in {run_result, inplace, op_inplace} :
                /\ r.tag \in {"Ok", "Panic", "NotCalled"}
                /\ r.tag = "Panic" => zero_div
                /\ r.tag = "Ok" => Len(r.val.data) = Len(call.a.data)

\* Both functions took the fast path with two cycles and two repeats of a
\* b of two elements.
C25_Witness ==
    /\ FastEntered
    /\ FastParams = Some(<<2, 2>>)
    /\ Len(call.b.data) = 2
    /\ run_result.path = "fast"
    /\ inplace.path = "fast"

\* The row-major position in t of the element that broadcasting t to
\* `shape` places at row-major position k (from 0) of the result, summed
\* from axis j of t on: the index is that of the result on the axes where t
\* has the result's size, and 0 on t's axes of size 1.
RECURSIVE BroadcastPosition(_, _, _, _)
BroadcastPosition(t, shape, k, j) ==
    IF j > Len(t.shape)
    THEN 0
    ELSE LET i == j + Len(shape) - Len(t.shape)
             index == IF t.shape[j] = 1 THEN 0
                      ELSE (k \div ContigStrides(shape)[i]) % shape[i]
         IN index * ContigStrides(t.shape)[j]
            + BroadcastPosition(t, shape, k, j + 1)

BroadcastElement(t, shape, k) ==
    Elements(t)[BroadcastPosition(t, shape, k, 1) + 1]

\* where_op was called on broadcast-compatible cond, x and y.
WhereCalled ==
    /\ call.fn.name = "where"
    /\ run_result.tag # "NotCalled"
    /\ InputsCompatible

\* The shape broadcast(cond, broadcast(x, y)).
WhereShape ==
    PairwiseBroadcast(call.cond.shape,
                      PairwiseBroadcast(call.a.shape, call.b.shape))

\* C26: where_op on broadcast-compatible cond, x, y returns a tensor of
\* shape broadcast(cond, broadcast(x, y)) that has product(shape) elements,
\* each of them x's broadcast element where cond's broadcast element is
\* nonzero and y's otherwise; the cycling fast path gives the elements the
\* broadcast_iter fallback gives.
C26_WhereSelects ==
    WhereCalled =>
        /\ run_result.tag = "Ok"
        /\ run_result.val.shape = WhereShape
        /\ Len(run_result.val.data) = Product(WhereShape)
        /\ \A k \in 0..(Product(WhereShape) - 1) :
             run_result.val.data[k + 1]
                 = IF BroadcastElement(call.cond, WhereShape, k) # 0
                   THEN BroadcastElement(call.a, WhereShape, k)
                   ELSE BroadcastElement(call.b, WhereShape, k)
        /\ run_result.path = "cycle" =>
             run_result.val.data
                 = [k \in 1..Product(WhereShape) |->
                       IF broadcast_iter(call.cond, WhereShape)[k] # 0
                       THEN broadcast_iter(call.a, WhereShape)[k]
                       ELSE broadcast_iter(call.b, WhereShape)[k]]

\* The fast path cycled an x of two elements twice and selected from both
\* x and y.
C26_Witness ==
    /\ WhereCalled
    /\ run_result.path = "cycle"
    /\ call.a.shape = <<2>>
    /\ WhereShape = <<2, 2>>
    /\ \E k \in 1..4 : run_result.val.data[k] = call.a.data[((k - 1) % 2) + 1]
    /\ \E k \in 1..4 : run_result.val.data[k] \notin
                           {call.a.data[i] : i \in 1..Len(call.a.data)}

(***************************************************************************)
(* Further claims about the packing routines (checked under SpecPack)      *)
(***************************************************************************)
\* C28: for rows and cols ranges inside the matrix, empty ranges included,
\* and an out buffer of at least round_up(rows.len(), MR) * cols.len()
\* (pack_b_block: rows.len() * round_up(cols.len(), NR)) elements,
\* pack_a_block and pack_b_block return normally: no assertion fails and no
\* subtraction underflows.
C28_ReturnsNormally ==
    (RangesInside /\ Len(out) >= PackedLen) => pc # "panicked"

\* pack_a_block was called, without overflow checks, with an empty cols
\* range and at least MR rows, and panicked in its first panel.
C28_Witness ==
    /\ args.kind = "a"
    /\ ~args.overflow_checks
    /\ RangesInside
    /\ RangeLen(args.cols) = 0
    /\ RangeLen(args.rows) >= args.tile
    /\ Len(out) >= PackedLen
    /\ panel = 0
    /\ pc = "panicked"

\* The input indices nearest_resize and bilinear_resize compute along an
\* axis of in_size input and out_size output pixels: in_y (in_x) for
\* Nearest, in_y1 and in_y2 (in_x1 and in_x2) for Linear.
KernelIndices(in_size, out_size) ==
    LET coords == InputCoords(in_size, out_size, resize_call.coord_mode)
    IN IF resize_call.mode = "Nearest"
       THEN { round_coord(coords[d], resize_call.nearest_mode) :
                d \in 0..(out_size - 1) }
       ELSE UNION { { coords[d][1] \div 2^(coords[d][2]),
                      Min((coords[d][1] \div 2^(coords[d][2])) + 1,
                          in_size - 1) } : d \in 0..(out_size - 1) }

\* C29: a resize call that passes validation and has a non-empty output
\* returns Ok, and every input row index and column index its kernel
\* computes lies in 0 .. height - 1 and 0 .. width - 1, for every input
\* height and width, 1 and 0 included.
C29_IndicesInRange ==
    (ResizeCalled /\ ValidationPasses /\ Product(CalledSizes) > 0) =>
        /\ resize_result.tag = "Ok"
        /\ \A i \in KernelIndices(resize_call.input.val.shape[3],
                                  CalledSizes[3]) :
             0 <= i /\ i < resize_call.input.val.shape[3]
        /\ \A i \in KernelIndices(resize_call.input.val.shape[4],
                                  CalledSizes[4]) :
             0 <= i /\ i < resize_call.input.val.shape[4]

\* An input without rows was resized to one pixel, and the kernel panicked.
C29_Witness ==
    /\ ResizeCalled
    /\ ValidationPasses
    /\ resize_call.input.val.shape = <<1, 1, 0, 1>>
    /\ resize_call.target = [kind |-> "Sizes", t |-> from_data(<<4>>, <<1, 1, 1, 1>>)]
    /\ resize_result.tag = "Panic"

(***************************************************************************)
(* Claims about Concat, Slice and Add of ops/mod.rs                        *)
(***************************************************************************)
\* The arguments of concat have one rank, `dim` is one of their axes and
\* their shapes agree on every other axis.
ConcatCompatible ==
    /\ mod_call.fn = "concat"
    /\ Len(mod_call.a.shape) = Len(mod_call.b.shape)
    /\ mod_call.dim < Len(mod_call.a.shape)
    /\ \A d \in 1..Len(mod_call.a.shape) :
          d # mod_call.dim + 1 => mod_call.a.shape[d] = mod_call.b.shape[d]

\* Every range the slice call lists is the full range [0, size) of its axis.
SliceFullRanges ==
    /\ mod_call.fn = "slice"
    /\ LET ranges == slice_ranges(mod_call.input.shape, mod_call.starts,
                                  mod_call.ends, mod_call.axes)
       IN /\ ranges.tag = "Some"
          /\ \A d \in 1..Len(mod_call.input.shape) :
                ranges.val[d] = <<0, mod_call.input.shape[d]>>

\* C21: for a and b of one rank whose shapes agree except on `dim`,
\* concat(a, b, dim) has a's shape with a.shape[dim] + b.shape[dim] on axis
\* dim and a.len() + b.len() elements; slicing the result along dim over
\* [0, a.shape[dim]) gives a and over [a.shape[dim], a.shape[dim] +
\* b.shape[dim]) gives b; slicing axes over their full range returns the
\* input unchanged.
C21_ConcatSliceRoundTrip ==
    /\ (ConcatCompatible /\ mod_result # NotCalled) =>
          /\ mod_result.tag = "Some"
          /\ mod_result.val.shape =
                [mod_call.a.shape EXCEPT
                    ![mod_call.dim + 1] = @ + mod_call.b.shape[mod_call.dim + 1]]
          /\ Len(mod_result.val.data) =
                Len(mod_call.a.data) + Len(mod_call.b.data)
    /\ (ConcatCompatible /\ mod_second # NotCalled) =>
          /\ mod_second.val[1] = Some(mod_call.a)
          /\ mod_second.val[2] = Some(mod_call.b)
    /\ (SliceFullRanges /\ mod_result # NotCalled) =>
          mod_result = Some(mod_call.input)

C21_Witness ==
    /\ ConcatCompatible
    /\ mod_call.a.shape = <<2, 1>>
    /\ mod_call.b.shape = <<2, 2>>
    /\ mod_call.dim = 1
    /\ mod_result.tag = "Some"
    /\ mod_result.val.data = <<1, 101, 102, 2, 103, 104>>
    /\ mod_second # NotCalled
    /\ mod_second.val[2] = Some(mod_call.b)

\* A start or end counted from the end of an axis of `size` elements when it
\* is negative.
Wrapped(index, size) == IF index < 0 THEN index + size ELSE index

\* The ranges of the slice call with every start and end wrapped; Panic
\* when the call lists an axis the input does not have.
WrappedRanges ==
    LET ranges == slice_ranges(mod_call.input.shape, mod_call.starts,
                               mod_call.ends, mod_call.axes)
    IN IF ranges.tag = "Panic" THEN Panic
       ELSE Some([d \in 1..Len(mod_call.input.shape) |->
                     <<Wrapped(ranges.val[d][1], mod_call.input.shape[d]),
                       Wrapped(ranges.val[d][2], mod_call.input.shape[d])>>])

\* The wrapped ranges lie inside the input.
WrappedInside ==
    /\ mod_call.fn = "slice"
    /\ WrappedRanges.tag = "Some"
    /\ \A d \in 1..Len(mod_call.input.shape) :
          RangeInBounds(WrappedRanges.val[d], mod_call.input.shape[d])

\* C22: slice and slice_in_place take the range [start, end) on each listed
\* axis, a negative start or end counted from the end of the axis; axes not
\* listed keep their full range and the output size on a listed axis is the
\* wrapped end minus the wrapped start.
C22_NegativeIndicesWrap ==
    LET shape == [d \in 1..Len(mod_call.input.shape) |->
                     WrappedRanges.val[d][2] - WrappedRanges.val[d][1]]
        elements == slice_elements(mod_call.input, WrappedRanges.val)
    IN /\ (WrappedInside /\ mod_result # NotCalled) =>
             mod_result = Some(from_data(shape, elements))
       /\ (WrappedInside /\ mod_second # NotCalled) =>
             /\ mod_second.tag = "Some"
             /\ mod_second.val.shape = shape
             /\ Elements(mod_second.val) = elements

C22_Witness ==
    /\ mod_call.fn = "slice"
    /\ mod_call.input.shape = <<ModSize + 1>>
    /\ mod_call.starts = <<-2>>
    /\ mod_call.ends = <<-1>>
    /\ mod_call.axes = None
    /\ WrappedInside
    /\ mod_result = Panic
    /\ mod_second = Panic

\* The shapes of the two arguments of add are broadcast-compatible.
AddCompatible ==
    /\ mod_call.fn = "add"
    /\ broadcast_shapes(mod_call.a.shape, mod_call.b.shape).tag = "Some"

\* The elementwise sum of two tensors over the shape both are broadcast to.
BroadcastSum(a, b, shape) ==
    from_data(shape, [k \in 1..Product(shape) |->
                         broadcast_iter(a, shape)[k]
                         + broadcast_iter(b, shape)[k]])

\* C27: for broadcast-compatible shapes a and b, choose_broadcast_shape(a,
\* b) is the broadcast shape of a and b, both inputs can be broadcast to it,
\* and add returns the tensor of the broadcast shape whose elements are the
\* sums of the broadcast elements, in either order of the arguments.
C27_AddBroadcasts ==
    LET shape == broadcast_shapes(mod_call.a.shape, mod_call.b.shape).val
    IN AddCompatible =>
          /\ choose_broadcast_shape(mod_call.a.shape, mod_call.b.shape) = shape
          /\ choose_broadcast_shape(mod_call.b.shape, mod_call.a.shape) = shape
          /\ mod_result # NotCalled =>
                mod_result = Some(BroadcastSum(mod_call.a, mod_call.b, shape))
          /\ mod_second # NotCalled =>
                mod_second = Some(BroadcastSum(mod_call.a, mod_call.b, shape))

C27_Witness ==
    /\ AddCompatible
    /\ mod_call.a.shape = <<2, 1>>
    /\ mod_call.b.shape = <<1, 2>>
    /\ choose_broadcast_shape(mod_call.a.shape, mod_call.b.shape) = <<2, 1>>
    /\ mod_result = Panic
    /\ mod_second = Panic

(***************************************************************************)
(* Claims about the ModelBuilder                                           *)
(***************************************************************************)
\* C30: after any sequence of add_value, add_float_constant,
\* add_int_constant and add_operator calls on one ModelBuilder the k-th call
\* (counting from 0) returned node id k, so the ids are dense, strictly
\* increasing and never reused; finish() writes as many nodes as there were
\* calls, in the order of the calls, under schema_version 1.
C30_DenseNodeIds ==
    /\ \A k \in 1..Len(ids) : ids[k].id = k - 1
    /\ \A j \in 1..Len(ids) : \A k \in 1..Len(ids) :
          j < k => ids[j].id < ids[k].id
    /\ Len(nodes) = Len(ids)
    /\ \A k \in 1..Len(ids) :
          nodes[k].data_type =
             CASE ids[k].call = "add_value" -> "ValueNode"
               [] ids[k].call = "add_operator" -> "OperatorNode"
               [] OTHER -> "ConstantNode"
    /\ model # NotCalled =>
          /\ model.tag = "Some"
          /\ model.val.schema_version = 1
          /\ model.val.graph.nodes = nodes
          /\ Len(model.val.graph.nodes) = Len(ids)

C30_Witness ==
    /\ Len(ids) = MaxNodes
    /\ ids[1].call = "add_float_constant"
    /\ ids[2].call = "add_value"
    /\ ids[3].call = "add_operator"
    /\ ids[3].id = 2
    /\ nodes[3].data.inputs = <<0, 1>>
    /\ model # NotCalled
    /\ Len(model.val.graph.nodes) = MaxNodes

====
